---- MODULE Spec2Model ----
(***************************************************************************)
(* Model of the calm-track scraper (src/src/scraper.py): the single-       *)
(* instance lock, the run coordinator main(), the endpoint prober          *)
(* query_server, the fan-out collector scrape_all_servers, and the target  *)
(* bootstrap init_servers and the persister save_results with the session  *)
(* and the tables of src/src/models.                                       *)
(***************************************************************************)
EXTENDS Integers, Sequences, FiniteSets, TLC

(***************************************************************************)
(* Bounds                                                                  *)
(***************************************************************************)
\* number of processes that run main() against the same LOCK_FILE
NumProcs == 2

\* at most MaxFaults operations of the environment fail in one run
MaxFaults == 2

\* longest list of configured targets
MaxTargets == 2

\* longest player sample a status reply carries
MaxSample == 2

\* largest online count a status reply reports
MaxOnline == 3

Procs == 1..NumProcs

\* acquire/release round trips one caller makes (range(3) in
\* test_multiple_acquire_release_cycles)
MaxRounds == 3
MaxSnapshots == 3
MaxPeriod == 2

\* a process running main() opens LOCK_FILE at most once and a caller of
\* acquire_lock at most MaxRounds times, so at most that many files are ever
\* created at that path
Inodes == 1..(IF MaxRounds > NumProcs THEN MaxRounds ELSE NumProcs)

(***************************************************************************)
(* State                                                                   *)
(***************************************************************************)
VARIABLES
    pc,            \* pc[p]: the statement of main() process p executes next
    lock_file,     \* lock_file[p]: the file (inode) of the handle open() returned to p, 0 = none
    closed,        \* closed[p]: lock_file[p] is closed (or was never opened)
    db,            \* db[p]: the session of p: "none", "open" or "closed"
    exc,           \* exc[p]: the exception in flight in p, "none" when there is none
    failed,        \* failed[p]: the error raised by a step of the cycle body of p
    trace,         \* trace[p]: the calls and file operations p has made, in order
    stdout,        \* stdout[p]: the messages p has printed
    exit_status,   \* exit_status[p]: -1 while p runs, then its exit status
    dirEntry,      \* the file LOCK_FILE names, 0 when the path does not exist
    created,       \* number of files created at LOCK_FILE so far
    lockOwner,     \* lockOwner[i]: the process holding the exclusive lock on file i, 0 = free
    faults,        \* number of operations that have failed so far
    q_config,      \* query_server: the server_config it is called with
    q_reply,       \* query_server: what the client does for this call
    q_out,         \* query_server: how the call ended
    servers_config,\* scrape_all_servers: the list of targets it is called with
    task_pc,       \* task_pc[i]: where the i-th query_server task is
    task_reply,    \* task_reply[i]: what the client did for the i-th task
    task_out,      \* task_out[i]: how the i-th task ended
    gather,        \* where scrape_all_servers is: "pending", "waiting", "returned", "raised"
    results,       \* the list scrape_all_servers returned
    store,         \* the database: the committed rows of the four tables
    session,       \* the rows a commit of the open session would persist
    now,           \* the clock datetime.utcnow() reads
    timestamp,     \* save_results: the timestamp it read
    cursor,        \* save_results: the index of the result it handles next
    commits,       \* the calls of db.commit() init_servers or save_results (the one called last) has made
    before,        \* the database as it was when save_results was called
    at_start,      \* the database as it was when the cycle started
    stats_call,    \* get_server_stats: the server_id and the period it is called with
    stats_out      \* get_server_stats: how the call ended

procVars == <<pc, lock_file, closed, db, exc, failed, trace, stdout, exit_status>>
fsVars == <<dirEntry, created, lockOwner>>
mainVars == <<procVars, fsVars, faults>>
queryVars == <<q_config, q_reply, q_out>>
scrapeVars == <<servers_config, task_pc, task_reply, task_out, gather, results>>
storeVars == <<store, session, now, timestamp, cursor, commits, before, at_start>>
statsVars == <<stats_call, stats_out>>
vars == <<mainVars, queryVars, scrapeVars, storeVars, statsVars>>

LOCK_MESSAGE == "Another instance is already running."
DONE_MESSAGE == "Scraping completed"

\* the statements of the body of main(), in program order
BodySteps == <<"create_all", "load_servers", "SessionLocal", "init_servers",
               "scrape_all_servers", "save_results">>

BodyStepSet == {BodySteps[i] : i \in 1..Len(BodySteps)}

\* the calls main() makes (trace also records the file operations inside
\* acquire_lock and release_lock)
CallNames == BodyStepSet \cup {"acquire_lock", "db.close", "release_lock"}

Range(s) == {s[i] : i \in 1..Len(s)}

Count(s, e) == Cardinality({i \in 1..Len(s) : s[i] = e})

IndexOf(s, e) == CHOOSE i \in 1..Len(s) : s[i] = e

IsCall(e) == e \in CallNames

Calls(p) == SelectSeq(trace[p], IsCall)

\* an operation of the environment returns (TRUE) or fails (FALSE)
Outcomes == IF faults < MaxFaults THEN BOOLEAN ELSE {TRUE}

(***************************************************************************)
(* Control flow of main()                                                  *)
(***************************************************************************)
\* NextStep without the call of save_results
NextStep_SkipSave(s) ==
    CASE s = "create_all" -> "load_servers"
      [] s = "load_servers" -> "SessionLocal"
      [] s = "SessionLocal" -> "init_servers"
      [] s = "init_servers" -> "scrape_all_servers"
      [] s = "scrape_all_servers" -> "db.close"
      [] s = "save_results" -> "db.close"
      [] s = "db.close" -> "release_lock"

\* the statement executed after step s returns normally
NextStep(s) ==
    CASE s = "create_all" -> "load_servers"
      [] s = "load_servers" -> "SessionLocal"
      [] s = "SessionLocal" -> "init_servers"
      [] s = "init_servers" -> "scrape_all_servers"
      [] s = "scrape_all_servers" -> "save_results"
      [] s = "save_results" -> "db.close"
      [] s = "db.close" -> "release_lock"

\* Handler without the outer try/finally: release_lock only on the normal path
Handler_NoOuterFinally(s) ==
    CASE s \in {"create_all", "load_servers", "SessionLocal"} -> "main_end"
      [] s \in {"init_servers", "scrape_all_servers", "save_results"} -> "db.close"
      [] s = "db.close" -> "main_end"
      [] s \in {"unlock", "close"} -> "main_end"

\* Handler without the inner try/finally: db.close() only on the normal path
Handler_NoInnerFinally(s) ==
    CASE s \in {"create_all", "load_servers", "SessionLocal"} -> "release_lock"
      [] s \in {"init_servers", "scrape_all_servers", "save_results"} -> "release_lock"
      [] s = "db.close" -> "release_lock"
      [] s \in {"unlock", "close"} -> "main_end"

\* Handler when release_lock goes on after a failed unlock
Handler_UnlockIgnored(s) ==
    CASE s \in {"create_all", "load_servers", "SessionLocal"} -> "release_lock"
      [] s \in {"init_servers", "scrape_all_servers", "save_results"} -> "db.close"
      [] s = "db.close" -> "release_lock"
      [] s = "unlock" -> "lock_file.close"
      [] s = "close" -> "main_end"

\* the statement executed after step s raises: the innermost enclosing
\* finally block, or the end of main() when there is none
Handler(s) ==
    CASE s \in {"create_all", "load_servers", "SessionLocal"} -> "release_lock"
      [] s \in {"init_servers", "scrape_all_servers", "save_results"} -> "db.close"
      [] s = "db.close" -> "release_lock"
      [] s \in {"unlock", "close"} -> "main_end"

\* LockGranted for a shared lock (LOCK_SH instead of LOCK_EX)
LockGranted_Shared(i, p) == TRUE

\* the non-blocking exclusive lock on file i is granted to p
LockGranted(i, p) == lockOwner[i] \in {0, p}

\* the locks after process p gives up its lock on file i
Unlocked(i, p) ==
    [j \in Inodes |-> IF j = i /\ lockOwner[j] = p THEN 0 ELSE lockOwner[j]]

(***************************************************************************)
(* Initially no process has started and LOCK_FILE does not exist           *)
(***************************************************************************)
MainInit ==
    /\ pc = [p \in Procs |-> "acquire_lock"]
    /\ lock_file = [p \in Procs |-> 0]
    /\ closed = [p \in Procs |-> TRUE]
    /\ db = [p \in Procs |-> "none"]
    /\ exc = [p \in Procs |-> "none"]
    /\ failed = [p \in Procs |-> "none"]
    /\ trace = [p \in Procs |-> <<>>]
    /\ stdout = [p \in Procs |-> <<>>]
    /\ exit_status = [p \in Procs |-> -1]
    /\ dirEntry = 0
    /\ created = 0
    /\ lockOwner = [i \in Inodes |-> 0]
    /\ faults = 0

(***************************************************************************)
(* acquire_lock                                                            *)
(***************************************************************************)
\* AcquireFails with acquire_lock called inside the try of main()
AcquireFails_InsideTry(p) ==
    /\ stdout' = [stdout EXCEPT ![p] = Append(@, LOCK_MESSAGE)]
    /\ exc' = [exc EXCEPT ![p] = "SystemExit"]
    /\ pc' = [pc EXCEPT ![p] = "release_lock"]

\* except IOError: print(...); sys.exit(1)   (main() calls acquire_lock
\* outside its try, so SystemExit leaves main() at once)
AcquireFails(p) ==
    /\ stdout' = [stdout EXCEPT ![p] = Append(@, LOCK_MESSAGE)]
    /\ exc' = [exc EXCEPT ![p] = "SystemExit"]
    /\ pc' = [pc EXCEPT ![p] = "main_end"]

\* lock_file = open(LOCK_FILE, "w"): opens the existing file or creates one
acquire_lock_open(p) ==
    /\ pc[p] = "acquire_lock"
    /\ trace' = [trace EXCEPT ![p] = @ \o <<"acquire_lock", "open">>]
    /\ \E ok \in Outcomes :
        \/ /\ ok
           /\ IF dirEntry = 0
              THEN /\ created' = created + 1
                   /\ dirEntry' = created + 1
              ELSE UNCHANGED <<created, dirEntry>>
           /\ lock_file' = [lock_file EXCEPT ![p] = dirEntry']
           /\ closed' = [closed EXCEPT ![p] = FALSE]
           /\ pc' = [pc EXCEPT ![p] = "lockf"]
           /\ UNCHANGED <<exc, stdout, faults>>
        \/ /\ ~ok
           /\ AcquireFails(p)
           /\ faults' = faults + 1
           /\ UNCHANGED <<created, dirEntry, lock_file, closed>>
    /\ UNCHANGED <<db, failed, exit_status, lockOwner>>
    /\ UNCHANGED <<queryVars, statsVars, scrapeVars, storeVars>>

\* fcntl.lockf(lock_file, LOCK_EX | LOCK_NB); return lock_file
acquire_lock_lockf(p) ==
    /\ pc[p] = "lockf"
    /\ trace' = [trace EXCEPT ![p] = Append(@, "lockf")]
    /\ \/ /\ LockGranted(lock_file[p], p)
          /\ lockOwner' = [lockOwner EXCEPT ![lock_file[p]] = p]
          /\ pc' = [pc EXCEPT ![p] = "create_all"]
          /\ UNCHANGED <<exc, stdout>>
       \/ /\ ~LockGranted(lock_file[p], p)
          /\ AcquireFails(p)
          /\ UNCHANGED lockOwner
    /\ UNCHANGED <<lock_file, closed, db, failed, exit_status, dirEntry, created, faults>>
    /\ UNCHANGED <<queryVars, statsVars, scrapeVars, storeVars>>

(***************************************************************************)
(* The body of main()                                                      *)
(***************************************************************************)
\* Raise when the error is swallowed and main() goes on
Raise_Swallowed(p, s) ==
    /\ pc' = [pc EXCEPT ![p] = NextStep(s)]
    /\ failed' = [failed EXCEPT ![p] = s]
    /\ UNCHANGED exc

\* statement s of the body raises: control goes to the enclosing finally
Raise(p, s) ==
    /\ pc' = [pc EXCEPT ![p] = Handler(s)]
    /\ exc' = [exc EXCEPT ![p] = s]
    /\ failed' = [failed EXCEPT ![p] = s]

\* one statement s of the body: it returns, or it raises and control goes
\* to the enclosing finally
BodyStep(p, s, ok) ==
    /\ pc[p] = s
    /\ trace' = [trace EXCEPT ![p] = Append(@, s)]
    /\ \/ /\ ok
          /\ pc' = [pc EXCEPT ![p] = NextStep(s)]
          /\ UNCHANGED <<exc, failed, faults>>
       \/ /\ ~ok
          /\ Raise(p, s)
          /\ faults' = faults + 1
    /\ UNCHANGED <<lock_file, closed, exit_status, fsVars>>
    /\ UNCHANGED <<queryVars, statsVars, scrapeVars, storeVars>>

\* Base.metadata.create_all(bind=engine)
main_create_all(p) ==
    \E ok \in Outcomes :
        /\ BodyStep(p, "create_all", ok)
        /\ UNCHANGED <<db, stdout>>

\* servers_config = load_servers()
main_load_servers(p) ==
    \E ok \in Outcomes :
        /\ BodyStep(p, "load_servers", ok)
        /\ UNCHANGED <<db, stdout>>

\* db = SessionLocal()
main_SessionLocal(p) ==
    \E ok \in Outcomes :
        /\ BodyStep(p, "SessionLocal", ok)
        /\ db' = IF ok THEN [db EXCEPT ![p] = "open"] ELSE db
        /\ UNCHANGED stdout

\* init_servers(db, servers_config)
main_init_servers(p) ==
    \E ok \in Outcomes :
        /\ BodyStep(p, "init_servers", ok)
        /\ UNCHANGED <<db, stdout>>

\* results = await scrape_all_servers(servers_config)
main_scrape_all_servers(p) ==
    \E ok \in Outcomes :
        /\ BodyStep(p, "scrape_all_servers", ok)
        /\ UNCHANGED <<db, stdout>>

\* save_results(db, results); print(f"Scraping completed at ...")
main_save_results(p) ==
    \E ok \in Outcomes :
        /\ BodyStep(p, "save_results", ok)
        /\ stdout' = IF ok THEN [stdout EXCEPT ![p] = Append(@, DONE_MESSAGE)]
                           ELSE stdout
        /\ UNCHANGED db

\* the rows of the session after its transaction is rolled back: those
\* the database holds
Rollback == store

\* finally: db.close()   (an error raised here replaces the one in flight);
\* closing the session rolls back what it has not committed
main_db_close(p) ==
    /\ pc[p] = "db.close"
    /\ trace' = [trace EXCEPT ![p] = Append(@, "db.close")]
    /\ db' = [db EXCEPT ![p] = "closed"]
    /\ \E ok \in Outcomes :
        \/ /\ ok
           /\ pc' = [pc EXCEPT ![p] = NextStep("db.close")]
           /\ UNCHANGED <<exc, faults>>
        \/ /\ ~ok
           /\ pc' = [pc EXCEPT ![p] = Handler("db.close")]
           /\ exc' = [exc EXCEPT ![p] = "db.close"]
           /\ faults' = faults + 1
    /\ session' = Rollback
    /\ UNCHANGED <<lock_file, closed, failed, stdout, exit_status, fsVars>>
    /\ UNCHANGED <<queryVars, statsVars, scrapeVars>>
    /\ UNCHANGED <<store, now, timestamp, cursor, commits, before, at_start>>

(***************************************************************************)
(* release_lock                                                            *)
(***************************************************************************)
\* finally: release_lock(lock_file); its first statement is
\* fcntl.lockf(lock_file, fcntl.LOCK_UN), which is outside the try
release_lock_unlock(p) ==
    /\ pc[p] = "release_lock"
    /\ trace' = [trace EXCEPT ![p] = @ \o <<"release_lock", "unlock">>]
    /\ \E ok \in Outcomes :
        \/ /\ ok
           /\ lockOwner' = Unlocked(lock_file[p], p)
           /\ pc' = [pc EXCEPT ![p] = "lock_file.close"]
           /\ UNCHANGED <<exc, faults>>
        \/ /\ ~ok
           /\ pc' = [pc EXCEPT ![p] = Handler("unlock")]
           /\ exc' = [exc EXCEPT ![p] = "unlock"]
           /\ faults' = faults + 1
           /\ UNCHANGED lockOwner
    /\ UNCHANGED <<lock_file, closed, db, failed, stdout, exit_status, dirEntry, created>>
    /\ UNCHANGED <<queryVars, statsVars, scrapeVars, storeVars>>

\* lock_file.close(): the handle is closed even when close() raises;
\* closing a file drops the locks the process holds on it
release_lock_close(p) ==
    /\ pc[p] = "lock_file.close"
    /\ trace' = [trace EXCEPT ![p] = Append(@, "close")]
    /\ closed' = [closed EXCEPT ![p] = TRUE]
    /\ lockOwner' = Unlocked(lock_file[p], p)
    /\ \E ok \in Outcomes :
        \/ /\ ok
           /\ pc' = [pc EXCEPT ![p] = "os.remove"]
           /\ UNCHANGED <<exc, faults>>
        \/ /\ ~ok
           /\ pc' = [pc EXCEPT ![p] = Handler("close")]
           /\ exc' = [exc EXCEPT ![p] = "close"]
           /\ faults' = faults + 1
    /\ UNCHANGED <<lock_file, db, failed, stdout, exit_status, dirEntry, created>>
    /\ UNCHANGED <<queryVars, statsVars, scrapeVars, storeVars>>

\* release_lock_remove without the try/except: a failure of os.remove
\* leaves release_lock
release_lock_remove_Raises(p) ==
    /\ pc[p] = "os.remove"
    /\ trace' = [trace EXCEPT ![p] = Append(@, "remove")]
    /\ \E ok \in Outcomes :
        \/ /\ ok
           /\ dirEntry' = 0
           /\ UNCHANGED <<faults, exc>>
        \/ /\ ~ok
           /\ faults' = faults + 1
           /\ exc' = [exc EXCEPT ![p] = "remove"]
           /\ UNCHANGED dirEntry
    /\ pc' = [pc EXCEPT ![p] = "main_end"]
    /\ UNCHANGED <<lock_file, closed, db, failed, stdout, exit_status, created, lockOwner>>
    /\ UNCHANGED <<queryVars, statsVars, scrapeVars, storeVars>>

\* release_lock_remove that leaves the file in place
release_lock_remove_Keeps(p) ==
    /\ pc[p] = "os.remove"
    /\ trace' = [trace EXCEPT ![p] = Append(@, "remove")]
    /\ \E ok \in Outcomes :
        \/ /\ ok
           /\ UNCHANGED <<faults, dirEntry>>
        \/ /\ ~ok
           /\ faults' = faults + 1
           /\ UNCHANGED dirEntry
    /\ pc' = [pc EXCEPT ![p] = "main_end"]
    /\ UNCHANGED <<lock_file, closed, db, exc, failed, stdout, exit_status, created, lockOwner>>
    /\ UNCHANGED <<queryVars, statsVars, scrapeVars, storeVars>>

\* try: os.remove(LOCK_FILE) except: pass
\* removes whatever file the path names now; every failure is swallowed
release_lock_remove(p) ==
    /\ pc[p] = "os.remove"
    /\ trace' = [trace EXCEPT ![p] = Append(@, "remove")]
    /\ \E ok \in Outcomes :
        \/ /\ ok
           /\ dirEntry' = 0
           /\ UNCHANGED faults
        \/ /\ ~ok
           /\ faults' = faults + 1
           /\ UNCHANGED dirEntry
    /\ pc' = [pc EXCEPT ![p] = "main_end"]
    /\ UNCHANGED <<lock_file, closed, db, exc, failed, stdout, exit_status, created, lockOwner>>
    /\ UNCHANGED <<queryVars, statsVars, scrapeVars, storeVars>>

(***************************************************************************)
(* Process exit: asyncio.run(main()) returns or raises                     *)
(***************************************************************************)
\* ProcessExit that reports success whatever happened
ProcessExit_AlwaysZero(p) ==
    /\ pc[p] = "main_end"
    /\ pc' = [pc EXCEPT ![p] = "exited"]
    /\ exit_status' = [exit_status EXCEPT ![p] = 0]
    /\ closed' = [closed EXCEPT ![p] = TRUE]
    /\ lockOwner' = [i \in Inodes |-> IF lockOwner[i] = p THEN 0 ELSE lockOwner[i]]
    /\ UNCHANGED <<lock_file, db, exc, failed, trace, stdout, dirEntry, created, faults>>
    /\ UNCHANGED <<queryVars, statsVars, scrapeVars, storeVars>>

\* status 0 when main() returned, 1 for SystemExit(1) and for an unhandled
\* exception; the operating system closes the handle and drops the locks
ProcessExit(p) ==
    /\ pc[p] = "main_end"
    /\ pc' = [pc EXCEPT ![p] = "exited"]
    /\ exit_status' = [exit_status EXCEPT ![p] = IF exc[p] = "none" THEN 0 ELSE 1]
    /\ closed' = [closed EXCEPT ![p] = TRUE]
    /\ lockOwner' = [i \in Inodes |-> IF lockOwner[i] = p THEN 0 ELSE lockOwner[i]]
    /\ UNCHANGED <<lock_file, db, exc, failed, trace, stdout, dirEntry, created, faults>>
    /\ UNCHANGED <<queryVars, statsVars, scrapeVars, storeVars>>

(***************************************************************************)
(* query_server                                                            *)
(***************************************************************************)
\* the configured targets
Targets == {[id |-> "a", name |-> "A", ip |-> "h1", port |-> 1],
            [id |-> "b", name |-> "B", ip |-> "h2", port |-> 2]}

\* player.name of a sample entry: a name, the empty string or None
None == "<None>"
PlayerNames == {"X", "Y", "", None}

RECURSIVE SeqsUpTo(_, _)
\* the sequences over S of length at most n
SeqsUpTo(S, n) ==
    IF n = 0 THEN {<<>>}
    ELSE LET shorter == SeqsUpTo(S, n - 1)
         IN shorter \cup {Append(l, x) : l \in {t \in shorter : Len(t) = n - 1}, x \in S}

\* status.players.sample: no such attribute, None, or a list of players
Samples ==
    {[has_sample |-> FALSE, is_None |-> FALSE, list |-> <<>>],
     [has_sample |-> TRUE, is_None |-> TRUE, list |-> <<>>]}
    \cup {[has_sample |-> TRUE, is_None |-> FALSE, list |-> l] :
            l \in SeqsUpTo(PlayerNames, MaxSample)}

\* classes derived from Exception, and one that derives from BaseException only
ExceptionClasses ==
    {"ConnectionRefusedError", "TimeoutError", "IOError", "Exception",
     "AttributeError", "TypeError"}

\* the exception classes the client raises
ClientErrors == {"ConnectionRefusedError", "TimeoutError", "IOError", "Exception"}
BaseExceptionClasses == {"CancelledError"}

\* what the client does for one call: JavaServer(...) or async_status()
\* raises, or async_status() returns a status
RaiseReplies ==
    {[kind |-> "raise", at |-> a, class |-> c] :
        a \in {"JavaServer", "async_status"},
        c \in ClientErrors \cup BaseExceptionClasses}

StatusReplies ==
    {[kind |-> "status", online |-> n, sample |-> s] : n \in 0..MaxOnline, s \in Samples}

Replies == RaiseReplies \cup StatusReplies

\* the value of `if x` for a player name
Truthy(name) == name /= None /\ name /= ""

\* hasattr(status.players, "sample") and status.players.sample
SampleTruthy(sample) ==
    sample.has_sample /\ ~sample.is_None /\ Len(sample.list) > 0

NotNone(name) == name /= None

\* FilterNames with the test `player.name is not None`
FilterNames_KeepEmpty(list) == SelectSeq(list, NotNone)

\* [... for player in ... if player.name]
FilterNames(list) == SelectSeq(list, Truthy)

\* Caught for `except ConnectionError`
Caught_ConnectionError(class) == class = "ConnectionRefusedError"

\* except Exception as e
Caught(class) == class \in ExceptionClasses

\* how a call ends: it returns a value or raises an exception class
Returns(v) == [raised |-> "none", value |-> v]
Raises(c) == [raised |-> c, value |-> [success |-> FALSE]]

FailureResult(server_config) ==
    [server_id |-> server_config.id, player_count |-> 0, players |-> <<>>,
     success |-> FALSE]

\* [player.name for player in status.players.sample ...]: reading a missing
\* attribute and iterating over None raise
NamesOf(sample) ==
    IF ~sample.has_sample THEN Raises("AttributeError")
    ELSE IF sample.is_None THEN Raises("TypeError")
    ELSE Returns(FilterNames(sample.list))

\* players = []; if hasattr(...) and status.players.sample: players = [...]
PlayersOf(sample) ==
    IF SampleTruthy(sample) THEN NamesOf(sample) ELSE Returns(<<>>)

SuccessResult(server_config, status, players) ==
    [server_id |-> server_config.id,
     player_count |-> status.online,
     players |-> players,
     success |-> TRUE]

\* the exception the try block of query_server raises for this reply, or "none"
TryRaises(reply) ==
    IF reply.kind = "raise" THEN reply.class ELSE PlayersOf(reply.sample).raised

query_server(server_config, reply) ==
    IF TryRaises(reply) /= "none"
    THEN IF Caught(TryRaises(reply))
         THEN Returns(FailureResult(server_config))
         ELSE Raises(TryRaises(reply))
    ELSE Returns(SuccessResult(server_config, reply, PlayersOf(reply.sample).value))

NotCalled == [raised |-> "pending", value |-> [success |-> FALSE]]
NoReply == [kind |-> "none"]

QueryIdle ==
    /\ q_config = [id |-> "a", name |-> "A", ip |-> "h1", port |-> 1]
    /\ q_reply = NoReply
    /\ q_out = NotCalled

QueryInit ==
    /\ q_config \in Targets
    /\ q_reply \in Replies
    /\ q_out = NotCalled

\* one call of query_server
QueryServerCall ==
    /\ q_out = NotCalled
    /\ q_out' = query_server(q_config, q_reply)
    /\ UNCHANGED <<q_config, q_reply, mainVars, scrapeVars, storeVars, statsVars>>

(***************************************************************************)
(* scrape_all_servers                                                      *)
(***************************************************************************)
\* the target lists of at most MaxTargets entries (an id may repeat)
ConfigLists == SeqsUpTo(Targets, MaxTargets)

\* the replies the probes of scrape_all_servers receive
ProbeReplies ==
    {r \in Replies :
        \/ r.kind = "raise"
        \/ /\ r.kind = "status"
           /\ r.online \in {0, MaxOnline}
           /\ r.sample.has_sample
           /\ r.sample.list \in {<<>>, <<"X">>}}

TaskIds == 1..Len(servers_config)

ScrapeIdle ==
    /\ servers_config = <<>>
    /\ task_pc = <<>>
    /\ task_reply = <<>>
    /\ task_out = <<>>
    /\ gather = "idle"
    /\ results = <<>>

ScrapeInit ==
    /\ servers_config \in ConfigLists
    /\ task_pc = [i \in TaskIds |-> "none"]
    /\ task_reply = [i \in TaskIds |-> NoReply]
    /\ task_out = [i \in TaskIds |-> NotCalled]
    /\ gather = "pending"
    /\ results = <<>>

\* tasks = [query_server(server) for server in servers_config]
\* asyncio.gather(*tasks) schedules one task per entry and waits
scrape_all_servers_call ==
    /\ gather = "pending"
    /\ gather' = "waiting"
    /\ task_pc' = [i \in TaskIds |-> "created"]
    /\ UNCHANGED <<servers_config, task_reply, task_out, results>>
    /\ UNCHANGED <<mainVars, queryVars, statsVars, storeVars>>

\* TaskEnds when a probe that failed is made again
TaskEnds_Retry(i, r) ==
    /\ task_reply' = [task_reply EXCEPT ![i] = r]
    /\ task_out' = [task_out EXCEPT ![i] = query_server(servers_config[i], r)]
    /\ task_pc' = [task_pc EXCEPT ![i] =
                      IF query_server(servers_config[i], r).value.success
                      THEN "done" ELSE "created"]

\* the i-th task ends with the outcome query_server has for reply r
TaskEnds(i, r) ==
    /\ task_reply' = [task_reply EXCEPT ![i] = r]
    /\ task_out' = [task_out EXCEPT ![i] = query_server(servers_config[i], r)]
    /\ task_pc' = [task_pc EXCEPT ![i] = "done"]

\* the i-th task starts: JavaServer(ip, port), then it awaits async_status()
query_server_start(i) ==
    /\ task_pc[i] = "created"
    /\ \/ /\ task_pc' = [task_pc EXCEPT ![i] = "awaiting"]
          /\ UNCHANGED <<task_reply, task_out>>
       \/ \E r \in {x \in ProbeReplies : x.kind = "raise" /\ x.at = "JavaServer"} :
             TaskEnds(i, r)
    /\ UNCHANGED <<servers_config, gather, results>>
    /\ UNCHANGED <<mainVars, queryVars, statsVars, storeVars>>

\* async_status() of the i-th task returns a status or raises
query_server_finish(i) ==
    /\ task_pc[i] = "awaiting"
    /\ \E r \in {x \in ProbeReplies : x.kind = "status" \/ x.at = "async_status"} :
          TaskEnds(i, r)
    /\ UNCHANGED <<servers_config, gather, results>>
    /\ UNCHANGED <<mainVars, queryVars, statsVars, storeVars>>

\* Awaited when the wait ends with the first task
Awaited_First == {i \in TaskIds : i = 1}

\* the tasks gather has to wait for before it returns
Awaited == TaskIds

\* gather_return when gather also waits for the other processes to end
gather_return_Foreign ==
    /\ gather = "waiting"
    /\ \A i \in Awaited : task_pc[i] = "done" /\ task_out[i].raised = "none"
    /\ \A q \in Procs : q > 1 => pc[q] = "exited"
    /\ gather' = "returned"
    /\ results' = [i \in TaskIds |-> task_out[i].value]
    /\ UNCHANGED <<servers_config, task_pc, task_reply, task_out>>
    /\ UNCHANGED <<mainVars, queryVars, statsVars, storeVars>>

\* gather_return with the results in the reverse of the order of the tasks
gather_return_Reversed ==
    /\ gather = "waiting"
    /\ \A i \in Awaited : task_pc[i] = "done" /\ task_out[i].raised = "none"
    /\ gather' = "returned"
    /\ results' = [i \in TaskIds |-> task_out[Len(servers_config) + 1 - i].value]
    /\ UNCHANGED <<servers_config, task_pc, task_reply, task_out>>
    /\ UNCHANGED <<mainVars, queryVars, statsVars, storeVars>>

\* gather returns the results of all tasks, in the order of the tasks
gather_return ==
    /\ gather = "waiting"
    /\ \A i \in Awaited : task_pc[i] = "done" /\ task_out[i].raised = "none"
    /\ gather' = "returned"
    /\ results' = [i \in TaskIds |-> task_out[i].value]
    /\ UNCHANGED <<servers_config, task_pc, task_reply, task_out>>
    /\ UNCHANGED <<mainVars, queryVars, statsVars, storeVars>>

\* gather raises the exception of a task that raised; the other tasks
\* are not cancelled and go on
gather_raise ==
    /\ gather = "waiting"
    /\ \E i \in TaskIds : task_pc[i] = "done" /\ task_out[i].raised /= "none"
    /\ gather' = "raised"
    /\ UNCHANGED <<servers_config, task_pc, task_reply, task_out, results>>
    /\ UNCHANGED <<mainVars, queryVars, statsVars, storeVars>>

(***************************************************************************)
(* The database and the session (models/models.py, models/database.py)     *)
(***************************************************************************)
\* the tables servers, player_counts, players and
\* player_snapshot_association without rows; the id of a player_counts or
\* players row is its position in the table
EmptyStore ==
    [servers |-> {}, player_counts |-> <<>>, players |-> <<>>,
     association |-> <<>>]

StoreIdle ==
    /\ store = EmptyStore
    /\ session = EmptyStore
    /\ now = 0
    /\ timestamp = 0
    /\ cursor = 0
    /\ commits = 0
    /\ before = EmptyStore
    /\ at_start = EmptyStore

\* get_server_stats is not called
NoStatsCall == [server_id |-> "a", period |-> 0]
NoStats == [status |-> 0]

StatsIdle ==
    /\ stats_call = NoStatsCall
    /\ stats_out = NoStats

\* Flushed for a session that commits on every flush
Flushed_Autocommit(committed, s) == s

\* the rows the database holds after the session has flushed s inside its
\* transaction: sessionmaker(autocommit=False), a flush commits nothing
Flushed(committed, s) == committed

(***************************************************************************)
(* init_servers                                                            *)
(***************************************************************************)
\* db.query(Server).filter(Server.id == id).first()
ServerExists(s, id) == \E row \in s.servers : row.id = id

\* NewServers when the row of an existing id is replaced: an object is
\* added for every entry
NewServers_All(s, config) == config

\* the Server objects init_servers adds: one for every entry whose id has
\* no row; sessionmaker(autoflush=False), so an object added for an earlier
\* entry is not seen by the query for a later entry with the same id
NewServers(s, config) ==
    SelectSeq(config, LAMBDA server_config : ~ServerExists(s, server_config.id))

\* servers.id is the primary key: two added objects with one id cannot
\* both be inserted
PrimaryKeyViolated(new) ==
    \E i, j \in 1..Len(new) : i < j /\ new[i].id = new[j].id

\* Bootstrapped when the table is rewritten from the added objects: the
\* rows it held are deleted
Bootstrapped_Replace(s, new) ==
    [s EXCEPT !.servers = {new[i] : i \in 1..Len(new)}]

\* Bootstrapped when only the first configured target is added
Bootstrapped_FirstOnly(s, new) ==
    [s EXCEPT !.servers = @ \cup {new[i] : i \in {j \in 1..Len(new) : j = 1}}]

\* the rows of the session after db.add(server) for every new object
Bootstrapped(s, new) ==
    [s EXCEPT !.servers = @ \cup {new[i] : i \in 1..Len(new)}]

\* init_servers(db, servers_config): the lookups and adds of the loop, then
\* db.commit(), called once; the commit raises IntegrityError when two
\* added objects have the same id, and any of the calls can fail (a lookup
\* before the commit, or the commit)
init_servers(p) ==
    /\ pc[p] = "init_servers"
    /\ trace' = [trace EXCEPT ![p] = Append(@, "init_servers")]
    /\ session' = Bootstrapped(session, NewServers(session, servers_config))
    /\ \E ok \in Outcomes :
        \/ /\ ok
           /\ ~PrimaryKeyViolated(NewServers(session, servers_config))
           /\ store' = session'
           /\ commits' = commits + 1
           /\ pc' = [pc EXCEPT ![p] = NextStep("init_servers")]
           /\ UNCHANGED <<exc, failed, faults>>
        \/ /\ ok
           /\ PrimaryKeyViolated(NewServers(session, servers_config))
           /\ commits' = commits + 1
           /\ Raise(p, "init_servers")
           /\ UNCHANGED <<store, faults>>
        \/ /\ ~ok
           /\ \E at_commit \in BOOLEAN :
                 commits' = IF at_commit THEN commits + 1 ELSE commits
           /\ Raise(p, "init_servers")
           /\ faults' = faults + 1
           /\ UNCHANGED store
    /\ UNCHANGED <<lock_file, closed, db, stdout, exit_status, fsVars>>
    /\ UNCHANGED <<queryVars, statsVars, scrapeVars>>
    /\ UNCHANGED <<now, timestamp, cursor, before, at_start>>

(***************************************************************************)
(* The collection step of a cycle                                          *)
(***************************************************************************)
\* the replies the probes of a cycle receive: the connection is refused, or
\* a status with no player, with the players X and Y, or with X twice
CycleReplies ==
    {r \in Replies :
        \/ /\ r.kind = "raise"
           /\ r.at = "async_status"
           /\ r.class = "ConnectionRefusedError"
        \/ /\ r.kind = "status"
           /\ r.sample.has_sample
           /\ ~r.sample.is_None
           /\ \/ r.online = 0 /\ r.sample.list = <<>>
              \/ r.online = 3 /\ r.sample.list = <<"X", "Y">>
              \/ r.online = 2 /\ r.sample.list = <<"X", "X">>}

\* how the probes of a target list can end: one outcome of query_server
\* per target
ProbeOutcomes(config) ==
    {[i \in 1..Len(config) |-> query_server(config[i], replies[i])] :
        replies \in [1..Len(config) -> CycleReplies]}

\* every probe returned a result
AllReturned(outcomes) ==
    \A i \in 1..Len(outcomes) : outcomes[i].raised = "none"

\* the result lists scrape_all_servers can return for a target list
ResultLists(config) ==
    {[i \in 1..Len(config) |-> outcomes[i].value] :
        outcomes \in {o \in ProbeOutcomes(config) : AllReturned(o)}}

\* results = await scrape_all_servers(servers_config): every probe gets its
\* reply; gather returns the results in the order of the targets, or it
\* raises what a probe raised; the call itself can fail too
scrape_all_servers(p) ==
    /\ pc[p] = "scrape_all_servers"
    /\ trace' = [trace EXCEPT ![p] = Append(@, "scrape_all_servers")]
    /\ \E ok \in Outcomes :
        \/ /\ ok
           /\ \E outcomes \in ProbeOutcomes(servers_config) :
                IF AllReturned(outcomes)
                THEN /\ results' = [i \in TaskIds |-> outcomes[i].value]
                     /\ pc' = [pc EXCEPT ![p] = NextStep("scrape_all_servers")]
                     /\ UNCHANGED <<exc, failed>>
                ELSE /\ Raise(p, "scrape_all_servers")
                     /\ UNCHANGED results
           /\ UNCHANGED faults
        \/ /\ ~ok
           /\ Raise(p, "scrape_all_servers")
           /\ faults' = faults + 1
           /\ UNCHANGED results
    /\ UNCHANGED <<lock_file, closed, db, stdout, exit_status, fsVars>>
    /\ UNCHANGED <<servers_config, task_pc, task_reply, task_out, gather>>
    /\ UNCHANGED <<queryVars, statsVars, storeVars>>

(***************************************************************************)
(* save_results                                                            *)
(***************************************************************************)
\* Lookup when the row flushed last is not visible to the query
Lookup_NotLast(s, player_name) ==
    IF \E i \in 1..(Len(s.players) - 1) : s.players[i] = player_name
    THEN CHOOSE i \in 1..(Len(s.players) - 1) :
            /\ s.players[i] = player_name
            /\ \A j \in 1..(i - 1) : s.players[j] /= player_name
    ELSE 0

\* db.query(Player).filter(Player.username == player_name).first(): the id
\* of the row with this username among the rows of the transaction, 0 for
\* None
Lookup(s, player_name) ==
    IF \E i \in 1..Len(s.players) : s.players[i] = player_name
    THEN CHOOSE i \in 1..Len(s.players) :
            /\ s.players[i] = player_name
            /\ \A j \in 1..(i - 1) : s.players[j] /= player_name
    ELSE 0

\* SaveName when a player already in player_count.players is not appended
\* again
SaveName_Dedup(s, player_count_id, player_name) ==
    LET found == Lookup(s, player_name)
        flushed == IF found = 0
                   THEN [s EXCEPT !.players = Append(@, player_name)]
                   ELSE s
        player_id == IF found = 0 THEN Len(flushed.players) ELSE found
    IN IF \E j \in 1..Len(flushed.association) :
              flushed.association[j] = <<player_count_id, player_id>>
       THEN flushed
       ELSE [flushed EXCEPT !.association = Append(@, <<player_count_id, player_id>>)]

\* SaveName without player_count.players.append(player)
SaveName_NoLink(s, player_count_id, player_name) ==
    IF Lookup(s, player_name) = 0
    THEN [s EXCEPT !.players = Append(@, player_name)]
    ELSE s

\* SaveName without the lookup: a Player is created for every name
SaveName_AlwaysCreate(s, player_count_id, player_name) ==
    LET flushed == [s EXCEPT !.players = Append(@, player_name)]
    IN [flushed EXCEPT !.association =
                           Append(@, <<player_count_id, Len(flushed.players)>>)]

\* one name of a result: look the player up, add and flush a Player when
\* there is none, and append the player to player_count.players
SaveName(s, player_count_id, player_name) ==
    LET found == Lookup(s, player_name)
        flushed == IF found = 0
                   THEN [s EXCEPT !.players = Append(@, player_name)]
                   ELSE s
        player_id == IF found = 0 THEN Len(flushed.players) ELSE found
    IN [flushed EXCEPT !.association = Append(@, <<player_count_id, player_id>>)]

RECURSIVE SaveNames(_, _, _)
\* for player_name in result["players"]: ...
SaveNames(s, player_count_id, names) ==
    IF names = <<>> THEN s
    ELSE SaveNames(SaveName(s, player_count_id, Head(names)),
                   player_count_id, Tail(names))

\* NewPlayerCount with the length of the players list as player_count
NewPlayerCount_CountsNames(result, ts) ==
    [server_id |-> result.server_id, timestamp |-> ts,
     player_count |-> Len(result.players)]

\* PlayerCount(server_id=..., timestamp=timestamp, player_count=...)
NewPlayerCount(result, ts) ==
    [server_id |-> result.server_id, timestamp |-> ts,
     player_count |-> result.player_count]

\* SaveResult that updates the PlayerCount row the server already has
\* instead of adding one
SaveResult_Update(s, result, ts) ==
    IF ~result.success THEN s
    ELSE IF \E k \in 1..Len(s.player_counts) :
               s.player_counts[k].server_id = result.server_id
         THEN LET k == CHOOSE j \in 1..Len(s.player_counts) :
                          s.player_counts[j].server_id = result.server_id
              IN SaveNames([s EXCEPT !.player_counts[k] = NewPlayerCount(result, ts)],
                           k, result.players)
         ELSE LET added == [s EXCEPT !.player_counts =
                                         Append(@, NewPlayerCount(result, ts))]
              IN SaveNames(added, Len(added.player_counts), result.players)

\* SaveResult without `if not result["success"]: continue`
SaveResult_NoSkip(s, result, ts) ==
    LET added == [s EXCEPT !.player_counts =
                               Append(@, NewPlayerCount(result, ts))]
    IN SaveNames(added, Len(added.player_counts), result.players)

\* one pass of the loop of save_results: a failed result is skipped; for a
\* successful one a PlayerCount is added and flushed and its names are saved
SaveResult(s, result, ts) ==
    IF ~result.success THEN s
    ELSE LET added == [s EXCEPT !.player_counts =
                                    Append(@, NewPlayerCount(result, ts))]
         IN SaveNames(added, Len(added.player_counts), result.players)

RECURSIVE SaveResults(_, _, _)
\* for result in results: ...   (the whole loop)
SaveResults(s, rs, ts) ==
    IF rs = <<>> THEN s
    ELSE SaveResults(SaveResult(s, Head(rs), ts), Tail(rs), ts)

\* the rows a cycle that meets no error leaves in database s: init_servers
\* commits the new targets, save_results commits the loop
CycleEffect(s, config, rs, ts) ==
    IF PrimaryKeyViolated(NewServers(s, config)) THEN s
    ELSE SaveResults(Bootstrapped(s, NewServers(s, config)), rs, ts)

\* SaveStep with db.commit() inside the loop
SaveStep_CommitInLoop(i, n) == "db.commit"

\* the statement of save_results after i of n results have been handled
SaveStep(i, n) == IF i < n THEN "for_result" ELSE "db.commit"

\* CycleTimestamp when datetime.utcnow() is read for every PlayerCount
CycleTimestamp_Now == now

\* the timestamp the PlayerCount objects of a call get: the one read at
\* the start of the call
CycleTimestamp == timestamp

\* save_results(db, results) is called: timestamp = datetime.utcnow()
save_results(p) ==
    /\ pc[p] = "save_results"
    /\ trace' = [trace EXCEPT ![p] = Append(@, "save_results")]
    /\ timestamp' = now
    /\ now' = now + 1
    /\ cursor' = 1
    /\ commits' = 0
    /\ before' = store
    /\ pc' = [pc EXCEPT ![p] = SaveStep(0, Len(results))]
    /\ UNCHANGED <<lock_file, closed, db, exc, failed, stdout, exit_status,
                   fsVars, faults>>
    /\ UNCHANGED <<queryVars, statsVars, scrapeVars, store, session, at_start>>

\* the loop body for results[cursor]; a flush or a lookup can fail after
\* the PlayerCount and some of the names have been handled
save_results_for(p) ==
    /\ pc[p] = "for_result"
    /\ now' = now + 1
    /\ \E ok \in Outcomes :
        \/ /\ ok
           /\ session' = SaveResult(session, results[cursor], CycleTimestamp)
           /\ cursor' = cursor + 1
           /\ pc' = [pc EXCEPT ![p] = SaveStep(cursor, Len(results))]
           /\ UNCHANGED <<exc, failed, faults>>
        \/ /\ ~ok
           /\ results[cursor].success
           /\ \E k \in 0..Len(results[cursor].players) :
                session' = SaveResult(session,
                                      [results[cursor] EXCEPT
                                          !.players = SubSeq(@, 1, k)],
                                      CycleTimestamp)
           /\ Raise(p, "save_results")
           /\ faults' = faults + 1
           /\ UNCHANGED cursor
    /\ store' = Flushed(store, session')
    /\ UNCHANGED <<lock_file, closed, db, trace, stdout, exit_status, fsVars>>
    /\ UNCHANGED <<queryVars, statsVars, scrapeVars, timestamp, commits, before, at_start>>

\* db.commit(), then main() prints the completion message
save_results_commit(p) ==
    /\ pc[p] = "db.commit"
    /\ commits' = commits + 1
    /\ \E ok \in Outcomes :
        \/ /\ ok
           /\ store' = session
           /\ stdout' = [stdout EXCEPT ![p] = Append(@, DONE_MESSAGE)]
           /\ pc' = [pc EXCEPT ![p] = NextStep("save_results")]
           /\ UNCHANGED <<exc, failed, faults>>
        \/ /\ ~ok
           /\ Raise(p, "save_results")
           /\ faults' = faults + 1
           /\ UNCHANGED <<store, stdout>>
    /\ UNCHANGED <<lock_file, closed, db, trace, exit_status, fsVars>>
    /\ UNCHANGED <<queryVars, statsVars, scrapeVars, session, now, timestamp, cursor,
                   before, at_start>>

(***************************************************************************)
(* Specifications                                                          *)
(***************************************************************************)
Init == MainInit /\ QueryIdle /\ ScrapeIdle /\ StoreIdle /\ StatsIdle

Next ==
    \E p \in Procs :
        \/ acquire_lock_open(p)
        \/ acquire_lock_lockf(p)
        \/ main_create_all(p)
        \/ main_load_servers(p)
        \/ main_SessionLocal(p)
        \/ main_init_servers(p)
        \/ main_scrape_all_servers(p)
        \/ main_save_results(p)
        \/ main_db_close(p)
        \/ release_lock_unlock(p)
        \/ release_lock_close(p)
        \/ release_lock_remove(p)
        \/ ProcessExit(p)

\* processes running main() against one LOCK_FILE
Spec == Init /\ [][Next]_vars

InitQuery == MainInit /\ QueryInit /\ ScrapeIdle /\ StoreIdle /\ StatsIdle

NextQuery == QueryServerCall

\* one call of query_server, for every target and every reply
SpecQuery == InitQuery /\ [][NextQuery]_vars

InitScrape == MainInit /\ QueryIdle /\ ScrapeInit /\ StoreIdle /\ StatsIdle

NextScrape ==
    \/ scrape_all_servers_call
    \/ \E i \in TaskIds : query_server_start(i)
    \/ \E i \in TaskIds : query_server_finish(i)
    \/ gather_return
    \/ gather_raise

\* one call of scrape_all_servers, for every target list
SpecScrape == InitScrape /\ [][NextScrape]_vars

\* the targets earlier cycles were configured with: the target with id "a"
\* had another name, ip and port then
StoredTargets ==
    {[id |-> "a", name |-> "A0", ip |-> "h0", port |-> 0],
     [id |-> "b", name |-> "B", ip |-> "h2", port |-> 2]}

\* the target lists of the earlier cycles that got past init_servers: the
\* stored targets, one of them or both in one order
EarlierConfigs ==
    {config \in SeqsUpTo(StoredTargets, MaxTargets) :
        /\ Len(config) > 0
        /\ ~PrimaryKeyViolated(config)
        /\ \A i \in 2..Len(config) : config[i].id /= "a"}

\* what the probes of an earlier cycle returned: a failure, or the player
\* X listed twice
EarlierResultLists(config) ==
    {rs \in ResultLists(config) :
        \A i \in 1..Len(rs) : rs[i].success => rs[i].players = <<"X", "X">>}

\* the databases a cycle can find: the empty one, or what an earlier cycle
\* (at time 0, for its own target list) committed
EarlierStores ==
    {EmptyStore} \cup
    UNION {{CycleEffect(EmptyStore, config, rs, 0) : rs \in EarlierResultLists(config)} :
              config \in EarlierConfigs}

\* the target list servers.json holds and the database the cycle finds
CycleInit ==
    /\ servers_config \in ConfigLists
    /\ task_pc = <<>>
    /\ task_reply = <<>>
    /\ task_out = <<>>
    /\ gather = "idle"
    /\ results = <<>>
    /\ store \in EarlierStores
    /\ session = store
    /\ now = 1
    /\ timestamp = 0
    /\ cursor = 0
    /\ commits = 0
    /\ before = store
    /\ at_start = store

InitCycle == MainInit /\ QueryIdle /\ CycleInit /\ StatsIdle

\* the process that runs the cycle: the first one
Runner(p) == \A q \in Procs : p <= q

NextCycle ==
    \E p \in {q \in Procs : Runner(q)} :
        \/ acquire_lock_open(p)
        \/ acquire_lock_lockf(p)
        \/ main_create_all(p)
        \/ main_load_servers(p)
        \/ main_SessionLocal(p)
        \/ init_servers(p)
        \/ scrape_all_servers(p)
        \/ save_results(p)
        \/ save_results_for(p)
        \/ save_results_commit(p)
        \/ main_db_close(p)
        \/ release_lock_unlock(p)
        \/ release_lock_close(p)
        \/ release_lock_remove(p)
        \/ ProcessExit(p)

\* one cycle, run after the earlier cycles have ended
SpecCycle == InitCycle /\ [][NextCycle]_vars

(***************************************************************************)
(* Properties of the lock and of main(), checked under Spec                *)
(***************************************************************************)
\* acquire_lock printed its message: the acquisition failed
AcquireFailed(p) == LOCK_MESSAGE \in Range(stdout[p])

\* acquire_lock returned the handle to main()
Acquired(p) == pc[p] \notin {"acquire_lock", "lockf"} /\ ~AcquireFailed(p)

\* main() has ended in p (it returned or raised)
Ended(p) == pc[p] \in {"main_end", "exited"}

\* p is between the return of acquire_lock and the end of release_lock
InCycle(p) == Acquired(p) /\ ~Ended(p)

\* C1: at most one process at a time is between a successful return of
\* acquire_lock and the end of its release_lock.
C1_MutualExclusion ==
    \A p, q \in Procs : p /= q => ~(InCycle(p) /\ InCycle(q))

\* the lock call of acquire_lock has been made in p
Attempted(p) == "lockf" \in Range(trace[p])

\* no process has called release_lock
NoRelease == \A r \in Procs : "release_lock" \notin Range(trace[r])

\* p failed to acquire the lock and did nothing else
Lost(p) ==
    /\ Ended(p)
    /\ exc[p] = "SystemExit"
    /\ stdout[p] = <<LOCK_MESSAGE>>
    /\ trace[p] = <<"acquire_lock", "open", "lockf">>
    /\ db[p] = "none"
    /\ pc[p] = "exited" => exit_status[p] = 1

\* p holds the handle acquire_lock returned, and the lock on its file
HoldsLock(p) ==
    /\ Acquired(p)
    /\ lock_file[p] /= 0
    /\ ~closed[p]
    /\ lockOwner[lock_file[p]] = p

\* C2: of the processes that have made the lock call on the same path with
\* no release in between, exactly one got the handle; every other one was
\* not blocked, printed the message, ends with status 1 and has neither
\* unlocked nor removed the file nor touched the database or a target.
C2_ExactlyOneAcquires ==
    /\ \A q \in Procs : pc[q] = "lockf" => ENABLED acquire_lock_lockf(q)
    /\ LET attempted == {p \in Procs : Attempted(p)}
       IN (NoRelease /\ Cardinality(attempted) >= 2) =>
            \E p \in attempted :
                /\ HoldsLock(p)
                /\ \A q \in attempted \ {p} : Lost(q)

C2_Witness ==
    \E p, q \in Procs :
        /\ p /= q
        /\ NoRelease
        /\ HoldsLock(p)
        /\ Attempted(q) /\ Lost(q) /\ pc[q] = "exited"

\* C3: once acquire_lock has succeeded, release_lock is called exactly once
\* on every exit path of main() (never twice), and it acts on the handle
\* acquire_lock returned: unless the unlock itself fails, the lock on that
\* file is given up.
C3_ReleaseExactlyOnce ==
    \A p \in Procs :
        /\ Count(trace[p], "release_lock") <= 1
        /\ "release_lock" \in Range(trace[p]) => Acquired(p)
        /\ (Acquired(p) /\ Ended(p)) =>
              /\ Count(trace[p], "release_lock") = 1
              /\ exc[p] /= "unlock" => lockOwner[lock_file[p]] /= p

C3_Witness ==
    \E p \in Procs :
        /\ Acquired(p) /\ Ended(p)
        /\ failed[p] = "save_results"
        /\ Count(trace[p], "release_lock") = 1

\* C4: a session that was opened is closed exactly once on every exit path,
\* before release_lock is called; when SessionLocal() fails no close is
\* attempted and release_lock is still called.
C4_SessionClosedOnce ==
    \A p \in Procs :
        /\ Count(trace[p], "db.close") <= 1
        /\ "db.close" \in Range(trace[p]) => db[p] = "closed"
        /\ ("release_lock" \in Range(trace[p]) /\ db[p] /= "none") =>
              /\ db[p] = "closed"
              /\ IndexOf(trace[p], "db.close") < IndexOf(trace[p], "release_lock")
        /\ (Ended(p) /\ db[p] /= "none") => Count(trace[p], "db.close") = 1
        /\ (Ended(p) /\ failed[p] = "SessionLocal") =>
              /\ db[p] = "none"
              /\ Count(trace[p], "db.close") = 0
              /\ Count(trace[p], "release_lock") = 1

C4_Witness ==
    \E p, q \in Procs :
        /\ Ended(p) /\ failed[p] = "init_servers" /\ db[p] = "closed"
        /\ Ended(q) /\ failed[q] = "SessionLocal"

\* C5: when a step of the body fails, main() ends raising that same error:
\* it is not swallowed and not replaced by an error of db.close() or
\* release_lock().
C5_ErrorPreserved ==
    \A p \in Procs : (Ended(p) /\ failed[p] /= "none") => exc[p] = failed[p]

\* C6: when acquire_lock fails, main() ends at once with exit status 1: no
\* other call is made (no schema, targets, session, probe, write, close or
\* release_lock), the file is opened and locked at most once (no retry).
C6_AcquireFailureEndsCycle ==
    \A p \in Procs :
        AcquireFailed(p) =>
            /\ Ended(p)
            /\ exc[p] = "SystemExit"
            /\ Calls(p) = <<"acquire_lock">>
            /\ trace[p] \in {<<"acquire_lock", "open">>, <<"acquire_lock", "open", "lockf">>}
            /\ db[p] = "none"
            /\ pc[p] = "exited" => exit_status[p] = 1

C6_Witness ==
    \E p \in Procs :
        /\ AcquireFailed(p)
        /\ Attempted(p)
        /\ pc[p] = "exited"
        /\ exit_status[p] = 1

\* main() has ended in p without an error
EndedNormally(p) == Ended(p) /\ exc[p] = "none"

\* C7 as stated: a cycle that completes normally makes its calls once each
\* in the order acquire lock, schema, load targets, bootstrap targets, open
\* session, collect, persist, close session, release lock.
C7_SpecOrder ==
    \A p \in Procs :
        EndedNormally(p) =>
            Calls(p) = <<"acquire_lock", "create_all", "load_servers", "init_servers",
                         "SessionLocal", "scrape_all_servers", "save_results",
                         "db.close", "release_lock">>

\* C7 amended: a cycle that completes normally makes its calls once each in
\* the order acquire lock, schema, load targets, open session, bootstrap
\* targets, collect, persist, close session, release lock.
C7_CodeOrder ==
    \A p \in Procs :
        EndedNormally(p) =>
            Calls(p) = <<"acquire_lock", "create_all", "load_servers", "SessionLocal",
                         "init_servers", "scrape_all_servers", "save_results",
                         "db.close", "release_lock">>

C7_Witness ==
    \E p \in Procs : EndedNormally(p) /\ pc[p] = "exited" /\ exit_status[p] = 0

(***************************************************************************)
(* Properties of query_server, checked under SpecQuery                     *)
(***************************************************************************)
QueryDone == q_out /= NotCalled

\* C8: when constructing the client or querying its status raises an
\* Exception, query_server does not raise: it returns server_id = the
\* target's id, player_count = 0, players = [], success = False.
C8_FailureIsAResult ==
    (QueryDone /\ q_reply.kind = "raise" /\ q_reply.class \in ExceptionClasses) =>
        /\ q_out.raised = "none"
        /\ q_out.value = [server_id |-> q_config.id, player_count |-> 0,
                          players |-> <<>>, success |-> FALSE]

C8_Witness ==
    /\ QueryDone
    /\ q_reply.kind = "raise"
    /\ q_reply.at = "async_status"
    /\ q_reply.class = "TimeoutError"
    /\ q_config.id = "b"

\* the positions of list that hold a name that is neither empty nor None
Kept(list) == {i \in 1..Len(list) : list[i] /= "" /\ list[i] /= None}

\* the k-th smallest member of a set of positions
Nth(positions, k) ==
    CHOOSE i \in positions : Cardinality({j \in positions : j <= i}) = k

\* C9: on a successful status query, query_server returns success = True,
\* server_id = the target's id, player_count = the reported online count
\* (whatever the length of the sample) and players = the names of the
\* sample in their order without the empty and None names; players is []
\* when the sample is absent, None or empty.
C9_SuccessResult ==
    (QueryDone /\ q_reply.kind = "status") =>
        /\ q_out.raised = "none"
        /\ q_out.value.success = TRUE
        /\ q_out.value.server_id = q_config.id
        /\ q_out.value.player_count = q_reply.online
        /\ LET sample == q_reply.sample
               players == q_out.value.players
           IN IF ~sample.has_sample \/ sample.is_None
              THEN players = <<>>
              ELSE /\ Len(players) = Cardinality(Kept(sample.list))
                   /\ \A k \in 1..Len(players) :
                         players[k] = sample.list[Nth(Kept(sample.list), k)]

C9_Witness ==
    /\ QueryDone
    /\ q_reply.kind = "status"
    /\ q_reply.online = MaxOnline
    /\ q_reply.sample.list = <<"", "Y">>
    /\ q_out.value.players = <<"Y">>

(***************************************************************************)
(* Properties of scrape_all_servers, checked under SpecScrape              *)
(***************************************************************************)
\* number of configured targets, and of returned results, with this id
ConfigsWith(id) == Cardinality({i \in TaskIds : servers_config[i].id = id})
ResultsWith(id) == Cardinality({i \in 1..Len(results) : results[i].server_id = id})

\* C10: scrape_all_servers returns only after every probe has finished or
\* failed; it returns one result per configured target (N results for N
\* targets, the ids of the results being the ids of the targets), every
\* probe's own result is in the list whatever happened to the other
\* probes, and all results have success = True when every probe succeeded.
C10_OneResultPerTarget ==
    gather = "returned" =>
        /\ \A i \in TaskIds : task_pc[i] = "done" /\ task_out[i].raised = "none"
        /\ Len(results) = Len(servers_config)
        /\ {results[i].server_id : i \in 1..Len(results)}
             = {servers_config[i].id : i \in TaskIds}
        /\ \A t \in Targets : ResultsWith(t.id) = ConfigsWith(t.id)
        /\ \A i \in TaskIds :
              /\ task_out[i].value.server_id = servers_config[i].id
              /\ task_out[i].value.success = (task_reply[i].kind = "status")
              /\ Cardinality({j \in 1..Len(results) : results[j] = task_out[i].value})
                   = Cardinality({j \in TaskIds : task_out[j] = task_out[i]})
        /\ (\A i \in TaskIds : task_reply[i].kind = "status") =>
              \A i \in 1..Len(results) : results[i].success

C10_Witness ==
    /\ gather = "returned"
    /\ Len(servers_config) = 2
    /\ servers_config[1].id /= servers_config[2].id
    /\ \E i, j \in 1..Len(results) : results[i].success /\ ~results[j].success

(***************************************************************************)
(* Claims about one cycle and the database (SpecCycle)                     *)
(***************************************************************************)
\* p holds no lock and has made the unlock call
Released(p) ==
    /\ "unlock" \in Range(trace[p])
    /\ \A i \in Inodes : lockOwner[i] /= p

\* save_results was called with one result per configured target, in the
\* order of the targets
CalledWithFullList(p) ==
    /\ "save_results" \in Range(trace[p])
    /\ Len(results) = Len(servers_config)
    /\ \A i \in 1..Len(results) : results[i].server_id = servers_config[i].id

\* C11: a cycle in which no operation fails except probes (each probe of
\* the target list either returns a status or has its connection refused,
\* for every target list) calls save_results with the full result list,
\* commits, closes the session, releases the lock and ends normally.
C11_ProbeFailureNeverAborts ==
    \A p \in Procs :
        pc[p] = "exited" /\ faults = 0 =>
            /\ CalledWithFullList(p)
            /\ commits = 1
            /\ store = SaveResults(before, results, timestamp)
            /\ db[p] = "closed"
            /\ Released(p)
            /\ exc[p] = "none"
            /\ exit_status[p] = 0


\* save_results has returned to main() in p: its commit succeeded
Committed(p) == DONE_MESSAGE \in Range(stdout[p])

\* p is inside save_results, between two passes of its loop or before its
\* commit
Saving(p) == pc[p] \in {"for_result", "db.commit"}

\* the results with success = True, in their order
Successful(rs) == SelectSeq(rs, LAMBDA result : result.success)

\* results with success = False whose other fields hold anything
FailedResults ==
    {[server_id |-> t.id, player_count |-> n, players |-> names,
      success |-> FALSE] :
        t \in Targets, n \in 0..MaxOnline,
        names \in SeqsUpTo({"X", "Y"}, MaxSample)}

\* C12: save_results skips a result with success = False entirely: the rows
\* staged after any number of passes, and the rows committed at the end,
\* are those the successful results alone produce, and a pass over a failed
\* result with any player_count and players leaves the session as it is.
C12_FailedResultsSkipped ==
    \A p \in Procs :
        /\ Saving(p) =>
             /\ session = SaveResults(before,
                                      Successful(SubSeq(results, 1, cursor - 1)),
                                      timestamp)
             /\ \A result \in FailedResults :
                   SaveResult(session, result, timestamp) = session
        /\ Committed(p) =>
             store = SaveResults(before, Successful(results), timestamp)

\* a committed batch with a failed result between or beside successful ones
C12_Witness ==
    \E p \in Procs :
        /\ Committed(p)
        /\ \E i, j \in 1..Len(results) :
              ~results[i].success /\ results[j].success
        /\ Len(store.player_counts) > Len(before.player_counts)

\* the player_counts rows committed since save_results was called
AddedSnapshots ==
    SubSeq(store.player_counts, Len(before.player_counts) + 1,
           Len(store.player_counts))

\* C13: after a save_results call that commits, the PlayerCount rows it
\* added are as many as the results with success = True, and the k-th added
\* row carries the server id and the player_count of the k-th such result;
\* the rows that were there before are unchanged.
C13_OneSnapshotPerSuccess ==
    \A p \in Procs :
        Committed(p) =>
            /\ Len(store.player_counts) >= Len(before.player_counts)
            /\ SubSeq(store.player_counts, 1, Len(before.player_counts))
                 = before.player_counts
            /\ Len(AddedSnapshots) = Len(Successful(results))
            /\ \A k \in 1..Len(AddedSnapshots) :
                  /\ AddedSnapshots[k].server_id = Successful(results)[k].server_id
                  /\ AddedSnapshots[k].player_count
                       = Successful(results)[k].player_count

\* a committed batch with a successful result without players and one
\* with players
C13_Witness ==
    \E p \in Procs :
        /\ Committed(p)
        /\ Len(AddedSnapshots) = 2
        /\ \E i, j \in 1..Len(results) :
              /\ results[i].success /\ results[i].players = <<>>
              /\ results[j].success /\ results[j].players /= <<>>

\* the player_counts rows the session has staged since save_results was
\* called
StagedSnapshots ==
    SubSeq(session.player_counts, Len(before.player_counts) + 1,
           Len(session.player_counts))

\* C14: every PlayerCount one save_results call creates, staged or
\* committed, carries the one timestamp the call read when it started,
\* however far the clock has moved on since.
C14_OneTimestamp ==
    \A p \in Procs :
        "save_results" \in Range(trace[p]) =>
            /\ timestamp < now
            /\ \A k \in 1..Len(StagedSnapshots) :
                  StagedSnapshots[k].timestamp = timestamp
            /\ \A k \in 1..Len(AddedSnapshots) :
                  AddedSnapshots[k].timestamp = timestamp

\* two PlayerCounts committed by one call, the second one created after the
\* clock has moved on
C14_Witness ==
    \E p \in Procs :
        /\ Committed(p)
        /\ Len(AddedSnapshots) = 2
        /\ AddedSnapshots[1].timestamp = AddedSnapshots[2].timestamp
        /\ now > timestamp + 2

\* no two rows of the players table t have the same username
UniqueUsernames(t) ==
    \A i, j \in 1..Len(t) : t[i] = t[j] => i = j

\* the ids of the players rows of s with this username
PlayerIds(s, username) == {i \in 1..Len(s.players) : s.players[i] = username}

\* the id of the PlayerCount row committed for the k-th successful result
SnapshotId(k) == Len(before.player_counts) + k

\* C15: the usernames of the players rows, staged and committed, are
\* pairwise different; the rows an earlier cycle committed keep their ids
\* and usernames; and after a commit every name of every successful result
\* has exactly one players row, which is associated with the PlayerCount of
\* each result that names it.
C15_EntityUniqueness ==
    /\ UniqueUsernames(store.players)
    /\ UniqueUsernames(session.players)
    /\ Len(store.players) >= Len(before.players)
    /\ SubSeq(store.players, 1, Len(before.players)) = before.players
    /\ \A p \in Procs :
          Committed(p) =>
              \A k \in 1..Len(Successful(results)) :
                  \A n \in 1..Len(Successful(results)[k].players) :
                      LET ids == PlayerIds(store, Successful(results)[k].players[n])
                      IN /\ Cardinality(ids) = 1
                         /\ \A id \in ids :
                               \E a \in 1..Len(store.association) :
                                   store.association[a] = <<SnapshotId(k), id>>

\* X was persisted by an earlier cycle and occurs in two successful results
\* of the committed batch: still one row, associated with both PlayerCounts
C15_Witness ==
    \E p \in Procs :
        /\ Committed(p)
        /\ PlayerIds(before, "X") /= {}
        /\ Len(Successful(results)) = 2
        /\ \A k \in 1..2 : "X" \in Range(Successful(results)[k].players)
        /\ \E id \in PlayerIds(store, "X") :
              \A k \in 1..2 :
                  <<SnapshotId(k), id>> \in Range(store.association)

\* the names that occur more than once in a players list
Repeated(names) == {names[i] : i \in {j \in 1..Len(names) : Count(names, names[j]) > 1}}

\* C16: when a name occurs more than once in the players list of one
\* successful result and no players row had it when save_results was
\* called, then once that result has been handled the session holds
\* exactly one players row with the name, created by this call, and after
\* the commit so does the database.
C16_RepeatedNameOneEntity ==
    \A p \in Procs :
        \A i \in 1..Len(results) :
            \A name \in Repeated(results[i].players) :
                results[i].success /\ PlayerIds(before, name) = {} =>
                    /\ Saving(p) /\ i < cursor =>
                          /\ Cardinality(PlayerIds(session, name)) = 1
                          /\ \A id \in PlayerIds(session, name) :
                                id > Len(before.players)
                    /\ Committed(p) =>
                          /\ Cardinality(PlayerIds(store, name)) = 1
                          /\ \A id \in PlayerIds(store, name) :
                                id > Len(before.players)

\* a committed result names X twice and X had no row before the call
C16_Witness ==
    \E p \in Procs :
        /\ Committed(p)
        /\ PlayerIds(before, "X") = {}
        /\ \E i \in 1..Len(results) :
              results[i].success /\ results[i].players = <<"X", "X">>
        /\ Cardinality(PlayerIds(store, "X")) = 1

\* save_results raised in p
SaveFailed(p) == failed[p] = "save_results"

\* C17: when save_results raises, at a flush or a lookup of any result or
\* at its commit, the error reaches main() (the completion message is not
\* printed and the error is in flight when db.close() is called), the
\* database holds exactly the rows it held when save_results was called,
\* and once the session is closed nothing staged is left in it.
C17_BatchAtomicity ==
    \A p \in Procs :
        SaveFailed(p) =>
            /\ ~Committed(p)
            /\ pc[p] \in {"db.close", "release_lock", "lock_file.close",
                          "os.remove", "main_end", "exited"}
            /\ pc[p] = "db.close" => exc[p] = "save_results"
            /\ store = before
            /\ db[p] = "closed" => session = before

\* save_results raised after it had staged the rows of a successful
\* result, and the session has been closed
C17_Witness ==
    \E p \in Procs :
        /\ SaveFailed(p)
        /\ db[p] = "closed"
        /\ cursor = 2
        /\ results[1].success
        /\ results[1].players /= <<>>

\* C18: a save_results call never calls db.commit() while a result is
\* still to be handled (between two passes the database is as the call
\* found it), reaches the commit only after the last result, calls it at
\* most once, and has called it exactly once when it returns, also for an
\* empty list and for a list of failed results only.
C18_CommitOnce ==
    \A p \in Procs :
        /\ "save_results" \in Range(trace[p]) => commits <= 1
        /\ pc[p] = "for_result" =>
              /\ commits = 0
              /\ cursor <= Len(results)
              /\ store = before
        /\ pc[p] = "db.commit" =>
              /\ commits = 0
              /\ cursor = Len(results) + 1
        /\ "save_results" \in Range(trace[p]) /\ commits = 1 =>
              cursor = Len(results) + 1
        /\ Committed(p) => commits = 1

\* a call with failed results only has returned after its one commit
C18_Witness ==
    \E p \in Procs :
        /\ Committed(p)
        /\ commits = 1
        /\ results /= <<>>
        /\ \A i \in 1..Len(results) : ~results[i].success

\* the target list of the scenario: a on h1:1 and b on h2:2
ScenarioTargets ==
    <<[id |-> "a", name |-> "A", ip |-> "h1", port |-> 1],
      [id |-> "b", name |-> "B", ip |-> "h2", port |-> 2]>>

\* the results of the scenario: a answered with 3 online and the players X
\* and Y, the probe of b failed
ScenarioResults ==
    <<[server_id |-> "a", player_count |-> 3, players |-> <<"X", "Y">>,
       success |-> TRUE],
      [server_id |-> "b", player_count |-> 0, players |-> <<>>,
       success |-> FALSE]>>

\* p ran the scenario to its end on an empty database and no operation
\* failed
ScenarioDone(p) ==
    /\ pc[p] = "exited"
    /\ faults = 0
    /\ at_start = EmptyStore
    /\ servers_config = ScenarioTargets
    /\ results = ScenarioResults

\* C19: from an empty database, with the targets a and b, a probe of a that
\* reports 3 players with the sample X, Y and a failed probe of b, one
\* complete cycle leaves one PlayerCount (server a, count 3) and none for
\* b, the two players X and Y, one association of the PlayerCount with
\* each of them, the servers rows of a and b, and the lock released.
C19_EndToEnd ==
    \A p \in Procs :
        ScenarioDone(p) =>
            /\ Len(store.player_counts) = 1
            /\ store.player_counts[1].server_id = "a"
            /\ store.player_counts[1].player_count = 3
            /\ Len(store.players) = 2
            /\ Range(store.players) = {"X", "Y"}
            /\ Len(store.association) = 2
            /\ \A name \in {"X", "Y"} :
                  \E id \in PlayerIds(store, name) :
                      <<1, id>> \in Range(store.association)
            /\ store.servers = Range(ScenarioTargets)
            /\ Released(p)
            /\ exit_status[p] = 0

\* the scenario has been run to its end
C19_Witness ==
    \E p \in Procs :
        /\ ScenarioDone(p)
        /\ "save_results" \in Range(trace[p])
        /\ store /= EmptyStore

\* the ids of the configured targets
ConfiguredIds == {servers_config[i].id : i \in 1..Len(servers_config)}

\* init_servers has returned in p
BootstrapDone(p) ==
    /\ "init_servers" \in Range(trace[p])
    /\ failed[p] /= "init_servers"

\* C20: at every moment every PlayerCount row, committed or staged, has the
\* server id of a committed servers row; once init_servers has returned
\* every configured id has a committed row; and the rows a call of
\* save_results stages are for configured ids only.
C20_SnapshotsReferenceTargets ==
    /\ \A k \in 1..Len(store.player_counts) :
          ServerExists(store, store.player_counts[k].server_id)
    /\ \A k \in 1..Len(session.player_counts) :
          ServerExists(store, session.player_counts[k].server_id)
    /\ \A p \in Procs :
          BootstrapDone(p) =>
              \A id \in ConfiguredIds : ServerExists(store, id)
    /\ \A k \in 1..Len(StagedSnapshots) :
          StagedSnapshots[k].server_id \in ConfiguredIds

\* a cycle that found no servers row has committed a PlayerCount for each
\* of two targets
C20_Witness ==
    \E p \in Procs :
        /\ Committed(p)
        /\ at_start.servers = {}
        /\ {AddedSnapshots[k].server_id : k \in 1..Len(AddedSnapshots)}
             = {"a", "b"}

\* load_servers raised in p
LoadFailed(p) == failed[p] = "load_servers"

\* a step of release_lock raised in p
ReleaseRaised(p) == exc[p] \in {"unlock", "close"}

C22_ReleaseNeverRaises ==
    \A p \in Procs : ~ReleaseRaised(p)

\* os.remove(LOCK_FILE) was executed by p
RemoveDone(p) == "remove" \in Range(trace[p])

\* C23: once os.remove has been executed, whether it removed the file or
\* raised, release_lock has returned: no error of release_lock is in flight
\* (the error in flight is still the one of the body or of db.close(), if
\* any), the lock has been unlocked and the handle closed.
C23_RemoveFailureSwallowed ==
    \A p \in Procs :
        RemoveDone(p) =>
            /\ pc[p] \in {"main_end", "exited"}
            /\ exc[p] \in {failed[p], "db.close"}
            /\ "unlock" \in Range(trace[p])
            /\ "close" \in Range(trace[p])
            /\ closed[p]
            /\ \A i \in Inodes : lockOwner[i] /= p

\* os.remove raised in p (the file p had opened is still there) and
\* release_lock returned normally
C23_Witness ==
    \E p \in Procs :
        /\ RemoveDone(p)
        /\ pc[p] = "main_end"
        /\ dirEntry = lock_file[p]
        /\ exc[p] = "none"
        /\ closed[p]
        /\ \A i \in Inodes : lockOwner[i] /= p

(***************************************************************************)
(* acquire_lock and release_lock called in a loop by one caller            *)
(***************************************************************************)
\* what open() and fcntl.lockf() can raise
LockErrors ==
    {"IOError", "PermissionError", "BlockingIOError", "ValueError",
     "KeyboardInterrupt"}

\* IOError is OSError; PermissionError and BlockingIOError derive from it
OSErrorClasses == {"IOError", "PermissionError", "BlockingIOError"}

\* CaughtIOError for `except BlockingIOError`
CaughtIOError_Blocking(class) == class = "BlockingIOError"

\* except IOError
CaughtIOError(class) == class \in OSErrorClasses

\* the errors the environment may inject now
InjectedErrors == IF faults < MaxFaults THEN LockErrors ELSE {}

\* open() or lockf() raises class inside the try of acquire_lock
LockRaises(p, class) ==
    /\ failed' = [failed EXCEPT ![p] = class]
    /\ IF CaughtIOError(class)
       THEN AcquireFails(p)
       ELSE /\ exc' = [exc EXCEPT ![p] = class]
            /\ pc' = [pc EXCEPT ![p] = "main_end"]
            /\ UNCHANGED stdout

\* one call of acquire_lock(); when it returns, the caller goes on to
\* release_lock(lock_file)
acquire_lock(p) ==
    /\ pc[p] = "acquire_lock"
    /\ \/ \E class \in InjectedErrors :
            /\ trace' = [trace EXCEPT ![p] = @ \o <<"acquire_lock", "open">>]
            /\ LockRaises(p, class)
            /\ faults' = faults + 1
            /\ UNCHANGED <<lock_file, closed, fsVars>>
       \/ LET f == IF dirEntry = 0 THEN created + 1 ELSE dirEntry
          IN  /\ trace' = [trace EXCEPT ![p] = @ \o <<"acquire_lock", "open", "lockf">>]
              /\ created' = IF dirEntry = 0 THEN created + 1 ELSE created
              /\ dirEntry' = f
              /\ lock_file' = [lock_file EXCEPT ![p] = f]
              /\ closed' = [closed EXCEPT ![p] = FALSE]
              /\ \/ \E class \in InjectedErrors :
                      /\ LockRaises(p, class)
                      /\ faults' = faults + 1
                      /\ UNCHANGED lockOwner
                 \/ /\ ~LockGranted(f, p)
                    /\ LockRaises(p, "BlockingIOError")
                    /\ UNCHANGED <<lockOwner, faults>>
                 \/ /\ LockGranted(f, p)
                    /\ lockOwner' = [lockOwner EXCEPT ![f] = p]
                    /\ pc' = [pc EXCEPT ![p] = "release_lock"]
                    /\ UNCHANGED <<exc, failed, stdout, faults>>
    /\ UNCHANGED <<db, exit_status>>
    /\ UNCHANGED <<queryVars, statsVars, scrapeVars, storeVars>>

\* the rounds of acquire_lock the caller has started
Rounds(p) == Count(trace[p], "acquire_lock")

\* release_lock returned: the caller starts the next round
acquire_release_cycle(p) ==
    /\ pc[p] = "main_end"
    /\ exc[p] = "none"
    /\ Rounds(p) < MaxRounds
    /\ pc' = [pc EXCEPT ![p] = "acquire_lock"]
    /\ UNCHANGED <<lock_file, closed, db, exc, failed, trace, stdout, exit_status>>
    /\ UNCHANGED <<fsVars, faults, queryVars, statsVars, scrapeVars, storeVars>>

\* LOCK_FILE does not exist, or a stale file exists that nobody has locked,
\* or a file exists that another process holds locked
LockInit ==
    /\ pc = [p \in Procs |-> "acquire_lock"]
    /\ lock_file = [p \in Procs |-> 0]
    /\ closed = [p \in Procs |-> TRUE]
    /\ db = [p \in Procs |-> "none"]
    /\ exc = [p \in Procs |-> "none"]
    /\ failed = [p \in Procs |-> "none"]
    /\ trace = [p \in Procs |-> <<>>]
    /\ stdout = [p \in Procs |-> <<>>]
    /\ exit_status = [p \in Procs |-> -1]
    /\ dirEntry \in {0, 1}
    /\ created = dirEntry
    /\ \E holder \in {0} \cup {q \in Procs : ~Runner(q) /\ dirEntry = 1} :
          lockOwner = [i \in Inodes |-> IF i = 1 THEN holder ELSE 0]
    /\ faults = 0

InitLock == LockInit /\ QueryIdle /\ ScrapeIdle /\ StoreIdle /\ StatsIdle

NextLock ==
    \E p \in {q \in Procs : Runner(q)} :
        \/ acquire_lock(p)
        \/ release_lock_unlock(p)
        \/ release_lock_close(p)
        \/ release_lock_remove(p)
        \/ acquire_release_cycle(p)
        \/ ProcessExit(p)

\* one caller making round trips of acquire_lock and release_lock
SpecLock == InitLock /\ [][NextLock]_vars

(***************************************************************************)
(* Properties of the lock functions, checked under SpecLock                *)
(***************************************************************************)
\* no process other than p holds a lock
NoOtherHolder(p) == \A i \in Inodes : lockOwner[i] \in {0, p}

\* p makes a call of acquire_lock in which neither open() nor lockf() is
\* made to fail by the environment
AcquireStep(p) == pc[p] = "acquire_lock" /\ pc'[p] /= pc[p] /\ faults' = faults

\* p executes os.remove and it removes the file: release_lock ends
RemoveStep(p) == pc[p] = "os.remove" /\ pc'[p] /= pc[p] /\ faults' = faults

\* C24: with one caller, every acquire_lock (the first one and each one
\* after a release_lock, with LOCK_FILE absent or left behind unlocked)
\* returns with the lock file existing and the handle open and locked, and
\* every release_lock that runs to its end leaves the handle closed and the
\* lock file removed.
C24_RoundTrip ==
    [][\A p \in Procs :
          /\ (AcquireStep(p) /\ NoOtherHolder(p)) =>
                /\ pc'[p] = "release_lock"
                /\ exc'[p] = "none"
                /\ dirEntry' /= 0
                /\ lock_file'[p] = dirEntry'
                /\ ~closed'[p]
                /\ lockOwner'[dirEntry'] = p
          /\ RemoveStep(p) =>
                /\ pc'[p] = "main_end"
                /\ exc'[p] = "none"
                /\ closed'[p]
                /\ dirEntry' = 0
                /\ NoOtherHolder(p)']_vars

\* the last round is under way and no operation has failed: every earlier
\* round acquired and released
C24_Witness ==
    \E p \in Procs :
        /\ Rounds(p) = MaxRounds
        /\ pc[p] = "release_lock"
        /\ faults = 0
        /\ Count(trace[p], "remove") = MaxRounds - 1
        /\ lock_file[p] = dirEntry
        /\ ~closed[p]

\* C25: an IOError (or a subclass) raised by open() or by lockf() in
\* acquire_lock makes it print LOCK_MESSAGE once and exit with status 1;
\* another exception leaves acquire_lock as it was raised, with nothing
\* printed.
C25_AcquireErrors ==
    \A p \in Procs :
        failed[p] /= "none" =>
            IF failed[p] \in OSErrorClasses
            THEN /\ Count(stdout[p], LOCK_MESSAGE) = 1
                 /\ exc[p] = "SystemExit"
                 /\ Ended(p)
                 /\ pc[p] = "exited" => exit_status[p] = 1
            ELSE /\ exc[p] = failed[p]
                 /\ stdout[p] = <<>>
                 /\ Ended(p)

\* permission was denied and the process exited with the message
C25_Witness ==
    \E p \in Procs :
        /\ failed[p] = "PermissionError"
        /\ stdout[p] = <<LOCK_MESSAGE>>
        /\ pc[p] = "exited"
        /\ exit_status[p] = 1

(***************************************************************************)
(* Exit status, checked under Spec                                         *)
(***************************************************************************)
\* the cycle of p ran to its end: the batch was committed, release_lock ran
\* to its last statement and no error is in flight
CompletedNormally(p) == Committed(p) /\ RemoveDone(p) /\ exc[p] = "none"

\* the lock call of p was refused because another process held the lock
LockRefused(p) ==
    /\ AcquireFailed(p)
    /\ Len(trace[p]) > 0
    /\ trace[p][Len(trace[p])] = "lockf"

\* C26: a process exits with status 0 if and only if its cycle completed
\* normally, with status 1 when acquire_lock failed (the lock is held by
\* another process), and with a non-zero status when an error left main().
C26_ExitStatus ==
    \A p \in Procs :
        pc[p] = "exited" =>
            /\ exit_status[p] = 0 <=> CompletedNormally(p)
            /\ AcquireFailed(p) => exit_status[p] = 1
            /\ exc[p] /= "none" => exit_status[p] /= 0

\* one process completed its cycle and exited with 0, another was refused
\* the lock and exited with 1
C26_Witness ==
    \E p, q \in Procs :
        /\ pc[p] = "exited" /\ CompletedNormally(p) /\ exit_status[p] = 0
        /\ pc[q] = "exited" /\ LockRefused(q) /\ exit_status[q] = 1

(***************************************************************************)
(* Properties of init_servers, checked under SpecCycle                     *)
(***************************************************************************)
\* the configured targets whose id has no row in s
Missing(s) ==
    {servers_config[i] : i \in {j \in 1..Len(servers_config) :
                                   \A row \in s.servers : row.id /= servers_config[j].id}}

\* init_servers has returned in p and save_results has not been called yet
JustBootstrapped(p) ==
    BootstrapDone(p) /\ "save_results" \notin Range(trace[p])

Reconfigured(s) ==
    \E row \in s.servers :
        \E i \in 1..Len(servers_config) :
            servers_config[i].id = row.id /\ servers_config[i] /= row

\* C28: init_servers never changes or deletes a servers row: at every
\* moment of the cycle every row the cycle found is still there with its
\* name, ip and port, also when the configuration gives other values for
\* its id or does not name its id; and no id has two rows.
C28_RowsKept ==
    /\ at_start.servers \subseteq store.servers
    /\ at_start.servers \subseteq session.servers
    /\ \A r1, r2 \in store.servers : r1.id = r2.id => r1 = r2
    /\ \A p \in Procs :
          Ended(p) => \A row \in store.servers \ at_start.servers :
                         /\ row \in Range(servers_config)
                         /\ ~ServerExists(at_start, row.id)

\* init_servers has returned where the row of a configured id has other
\* values than the configuration and another row is not configured
C28_Witness ==
    \E p \in Procs :
        /\ BootstrapDone(p)
        /\ Reconfigured(at_start)
        /\ \E row \in at_start.servers : row.id \notin ConfiguredIds
        /\ store.servers = at_start.servers

(***************************************************************************)
(* Probes are made once, checked under SpecScrape                          *)
(***************************************************************************)
\* the collection has ended: gather returned or raised
Collected == gather \in {"returned", "raised"}

\* C29: scrape_all_servers makes one probe per configured target; a probe
\* awaits async_status() once and then ends, an ended probe (failed or not)
\* is never started again and keeps its outcome, and a collection that has
\* ended (returned or raised) is not run again.
C29_QueriedOnce ==
    /\ [](Len(task_pc) = Len(servers_config))
    /\ [][/\ \A i \in TaskIds :
                /\ task_pc[i] = "awaiting" => task_pc'[i] \in {"awaiting", "done"}
                /\ task_pc[i] = "done" =>
                      /\ task_pc'[i] = "done"
                      /\ task_reply'[i] = task_reply[i]
                      /\ task_out'[i] = task_out[i]
          /\ Collected => gather' = gather /\ results' = results]_vars

\* the collection has returned with the failure of one probe and the
\* status of the other
C29_Witness ==
    /\ gather = "returned"
    /\ Len(results) = 2
    /\ ~results[1].success
    /\ results[2].success
    /\ task_reply[1].kind = "raise"
    /\ \A i \in TaskIds : task_pc[i] = "done"

(***************************************************************************)
(* Persisted data only grows, checked under SpecCycle                      *)
(***************************************************************************)
\* sequence old is the beginning of sequence new
PrefixOf(old, new) ==
    Len(old) <= Len(new) /\ SubSeq(new, 1, Len(old)) = old

\* every row of old is in new as it was, and the rows new has in addition
\* give no association to a player_counts row of old
Grown(old, new) ==
    /\ old.servers \subseteq new.servers
    /\ PrefixOf(old.players, new.players)
    /\ PrefixOf(old.player_counts, new.player_counts)
    /\ PrefixOf(old.association, new.association)
    /\ \A k \in (Len(old.association) + 1)..Len(new.association) :
          new.association[k][1] > Len(old.player_counts)

\* C30: at every moment of a cycle the database, and the rows its session
\* would commit, hold every Player and every PlayerCount an earlier cycle
\* committed, each PlayerCount with the server id, timestamp, player_count
\* and associations it had; and no step of a cycle takes a committed row
\* away or changes it.
C30_DataOnlyGrows ==
    /\ [](Grown(at_start, store) /\ Grown(at_start, session))
    /\ [][Grown(store, store')]_vars

\* a cycle has committed new rows of every table next to the rows and
\* associations an earlier cycle had committed
C30_Witness ==
    \E p \in Procs :
        /\ Committed(p)
        /\ at_start.association /= <<>>
        /\ Len(store.player_counts) > Len(at_start.player_counts)
        /\ Len(store.players) > Len(at_start.players)
        /\ Len(store.association) > Len(at_start.association)

(***************************************************************************)
(* A failed unlock, checked under Spec                                     *)
(***************************************************************************)
\* the unlock of release_lock raised in p and its error is in flight
UnlockFailed(p) == exc[p] = "unlock"

\* C36: when the unlock of release_lock raises, the error leaves
\* release_lock and main(), close() and os.remove are not executed, and
\* until the process exits the handle stays open and the lock stays held.
C36_UnlockFailurePropagates ==
    \A p \in Procs :
        UnlockFailed(p) =>
            /\ Ended(p)
            /\ "unlock" \in Range(trace[p])
            /\ "close" \notin Range(trace[p])
            /\ "remove" \notin Range(trace[p])
            /\ pc[p] = "main_end" =>
                  /\ ~closed[p]
                  /\ lockOwner[lock_file[p]] = p
            /\ pc[p] = "exited" => exit_status[p] = 1

\* the unlock raised after a cycle that had met no error; the file the
\* process had opened is still at the path
C36_Witness ==
    \E p \in Procs :
        /\ UnlockFailed(p)
        /\ failed[p] = "none"
        /\ pc[p] = "main_end"
        /\ ~closed[p]
        /\ dirEntry = lock_file[p]

(***************************************************************************)
(* init_servers on any target list, checked under SpecCycle                *)
(***************************************************************************)
\* init_servers has been called in p
BootstrapCalled(p) == "init_servers" \in Range(trace[p])

\* C37 as stated: for every target list, one with a repeated id included,
\* a call of init_servers in which no operation of the database fails
\* returns without error and leaves exactly one servers row for each
\* configured id.
C37_DuplicateIdsBootstrapped ==
    \A p \in Procs :
        (BootstrapCalled(p) /\ faults = 0) =>
            /\ failed[p] /= "init_servers"
            /\ \A id \in ConfiguredIds :
                  Cardinality({row \in store.servers : row.id = id}) = 1

(***************************************************************************)
(* Associations per occurrence, checked under SpecCycle                    *)
(***************************************************************************)
\* the association rows of s between PlayerCount row sid and a players row
\* with username name
Links(s, sid, name) ==
    {j \in 1..Len(s.association) :
        /\ s.association[j][1] = sid
        /\ s.players[s.association[j][2]] = name}

C34_ResultsInInputOrder ==
    gather = "returned" =>
        /\ Len(results) = Len(servers_config)
        /\ \A i \in 1..Len(results) :
              /\ results[i] = task_out[i].value
              /\ results[i].server_id = servers_config[i].id

\* the collection of the list <<b, a>> has returned with the failure of b
\* first and the status of a second
C34_Witness ==
    /\ gather = "returned"
    /\ Len(servers_config) = 2
    /\ servers_config[1].id = "b"
    /\ servers_config[2].id = "a"
    /\ results[1].server_id = "b"
    /\ ~results[1].success
    /\ results[2].server_id = "a"
    /\ results[2].success


(***************************************************************************)
(* get_server_stats (api.py), one call on a database the scraper filled     *)
(***************************************************************************)
\* time is counted in days; the call is made on day Today, late enough for
\* a row to be older than the longest period
Today == MaxPeriod + 1

\* the rows of player_counts the call can meet: of either target, taken on
\* any day up to Today, with no or one player online
StatsRows ==
    {[server_id |-> t.id, timestamp |-> d, player_count |-> c] :
        t \in Targets, d \in 0..Today, c \in 0..1}

\* save_results stamps the rows of a cycle with utcnow(), so the table is
\* in the order of the clock
StatsTables ==
    {rows \in SeqsUpTo(StatsRows, MaxSnapshots) :
        \A k \in 1..(Len(rows) - 1) : rows[k].timestamp <= rows[k + 1].timestamp}

\* five rows of target "a" with counts 0, 2, 4, 6, 8, taken today
ScenarioTable ==
    [k \in 1..5 |-> [server_id |-> "a", timestamp |-> Today,
                     player_count |-> 2 * (k - 1)]]

\* a database holding both targets and the given player_counts rows
StatsStore(rows) ==
    [EmptyStore EXCEPT !.servers = Targets, !.player_counts = rows]

\* the server_id path parameter (one that no row of servers has: "c") and
\* the period query parameter, ge=1
StatsInit ==
    /\ \E rows \in StatsTables \cup {ScenarioTable} : store = StatsStore(rows)
    /\ session = store
    /\ now = Today
    /\ timestamp = 0
    /\ cursor = 0
    /\ commits = 0
    /\ before = EmptyStore
    /\ at_start = EmptyStore
    /\ stats_call \in [server_id : {"a", "c"}, period : 1..MaxPeriod]
    /\ stats_out = NoStats

\* the rows the filter keeps, whatever their server_id
Filtered_AnyServer(s, server_id, start_date, end_date) ==
    SelectSeq(s.player_counts,
              LAMBDA r : /\ r.timestamp >= start_date
                         /\ r.timestamp <= end_date)

\* .filter(PlayerCount.server_id == server_id,
\*         PlayerCount.timestamp >= start_date,
\*         PlayerCount.timestamp <= end_date)
Filtered(s, server_id, start_date, end_date) ==
    SelectSeq(s.player_counts,
              LAMBDA r : /\ r.server_id = server_id
                         /\ r.timestamp >= start_date
                         /\ r.timestamp <= end_date)

RECURSIVE Sum(_)
\* the sum of the player_count column of the rows
Sum(rows) ==
    IF rows = <<>> THEN 0 ELSE Head(rows).player_count + Sum(Tail(rows))

\* func.min, func.max: None (here -1) when no row is left
Min(rows) ==
    IF rows = <<>> THEN -1
    ELSE CHOOSE m \in {rows[k].player_count : k \in 1..Len(rows)} :
             \A k \in 1..Len(rows) : m <= rows[k].player_count

Max(rows) ==
    IF rows = <<>> THEN -1
    ELSE CHOOSE m \in {rows[k].player_count : k \in 1..Len(rows)} :
             \A k \in 1..Len(rows) : m >= rows[k].player_count

\* x or 0, for x a number or None
OrZero(x) == IF x = -1 THEN 0 ELSE x

\* round(float(avg), 2) of avg = total / n, in hundredths: the nearest
\* hundredth, the even one when two are as near
Round2(total, n) ==
    LET q == (100 * total) \div n
        r == (100 * total) % n
    IN IF 2 * r < n THEN q
       ELSE IF 2 * r > n THEN q + 1
       ELSE IF q % 2 = 0 THEN q ELSE q + 1

\* get_server_stats(server_id, period, db) at time utcnow: 404 when no
\* server has the id, else the aggregates of the filtered rows; avg_players
\* is in hundredths
get_server_stats(s, utcnow, server_id, period) ==
    IF ~\E server \in s.servers : server.id = server_id
    THEN [status |-> 404]
    ELSE LET server == CHOOSE x \in s.servers : x.id = server_id
             end_date == utcnow
             start_date == end_date - period
             rows == Filtered(s, server_id, start_date, end_date)
         IN [status |-> 200,
             server_id |-> server_id,
             server_name |-> server.name,
             period_days |-> period,
             min_players |-> OrZero(Min(rows)),
             max_players |-> OrZero(Max(rows)),
             avg_players |-> IF rows = <<>> THEN 0
                             ELSE Round2(Sum(rows), Len(rows)),
             total_snapshots |-> Len(rows)]

\* GET /api/servers/{server_id}/stats
get_server_stats_call ==
    /\ stats_out = NoStats
    /\ stats_out' = get_server_stats(store, now, stats_call.server_id,
                                     stats_call.period)
    /\ UNCHANGED <<stats_call, mainVars, queryVars, scrapeVars, storeVars>>

InitStats == MainInit /\ QueryIdle /\ ScrapeIdle /\ StatsInit

NextStats == get_server_stats_call

\* one call of get_server_stats, for every table, target and period
SpecStats == InitStats /\ [][NextStats]_vars

(***************************************************************************)
(* Properties of get_server_stats, checked under SpecStats                  *)
(***************************************************************************)
\* the positions of the rows of the target the call asks for whose
\* timestamp lies in [now - period, now]
InPeriod ==
    {k \in 1..Len(store.player_counts) :
        /\ store.player_counts[k].server_id = stats_call.server_id
        /\ store.player_counts[k].timestamp >= now - stats_call.period
        /\ store.player_counts[k].timestamp <= now}

\* the player counts of those rows
PeriodCounts == {store.player_counts[k].player_count : k \in InPeriod}

RECURSIVE Total(_)
\* the sum of the player counts at the positions K
Total(K) ==
    IF K = {} THEN 0
    ELSE LET k == CHOOSE x \in K : TRUE
         IN store.player_counts[k].player_count + Total(K \ {k})

\* the call was answered for a target that exists
StatsReturned ==
    /\ stats_out # NoStats
    /\ \E server \in store.servers : server.id = stats_call.server_id

\* minimum, maximum and number of the rows in the period, 0 for an empty
\* period
ExtremesAndCount ==
    /\ stats_out.status = 200
    /\ stats_out.total_snapshots = Cardinality(InPeriod)
    /\ InPeriod = {} =>
           /\ stats_out.min_players = 0
           /\ stats_out.max_players = 0
           /\ stats_out.avg_players = 0
    /\ InPeriod # {} =>
           /\ stats_out.min_players \in PeriodCounts
           /\ stats_out.max_players \in PeriodCounts
           /\ \A c \in PeriodCounts :
                  stats_out.min_players <= c /\ c <= stats_out.max_players

\* the table is the one of the scenario
IsScenario == store.player_counts = ScenarioTable

\* min 0, max 8, avg 4.0, count 5
ScenarioValues ==
    /\ stats_out.min_players = 0
    /\ stats_out.max_players = 8
    /\ stats_out.avg_players = 400
    /\ stats_out.total_snapshots = 5

\* C33 as stated: the call returns the minimum, the maximum, the average
\* and the number of the target's rows in the period, avg_players being
\* the average itself
C33_StatsExact ==
    StatsReturned =>
        /\ ExtremesAndCount
        /\ stats_out.avg_players * Cardinality(InPeriod) = 100 * Total(InPeriod)
        /\ IsScenario => ScenarioValues

\* C33: get_server_stats for an existing target returns the minimum, the
\* maximum and the number of that target's rows whose timestamp lies in
\* [now - period days, now], and their average rounded to two decimals (no
\* hundredth is nearer to the average than avg_players); rows of another
\* target or outside the period are not counted; counts 0, 2, 4, 6, 8 give
\* min 0, max 8, avg 4.0, count 5 and an empty period gives 0 four times
C33_StatsRounded ==
    StatsReturned =>
        /\ ExtremesAndCount
        /\ LET n == Cardinality(InPeriod)
               d == stats_out.avg_players * n - 100 * Total(InPeriod)
           IN 2 * d <= n /\ 2 * d >= -n
        /\ IsScenario => ScenarioValues

\* an answered call whose period holds rows of the target with an average
\* that is not a whole number of hundredths
C33_Witness ==
    /\ StatsReturned
    /\ InPeriod # {}
    /\ (100 * Total(InPeriod)) % Cardinality(InPeriod) # 0

(***************************************************************************)
(* One cycle with the probes of scrape_all_servers as tasks of their own    *)
(***************************************************************************)
\* the target list servers.json holds, no task yet, and a new database
GatherInit ==
    /\ ScrapeInit
    /\ store = EmptyStore
    /\ session = store
    /\ now = 1
    /\ timestamp = 0
    /\ cursor = 0
    /\ commits = 0
    /\ before = store
    /\ at_start = store

\* results = await scrape_all_servers(servers_config): main() makes the
\* call, which creates the tasks, and is suspended
scrape_all_servers_await(p) ==
    /\ pc[p] = "scrape_all_servers"
    /\ scrape_all_servers_call

\* main() going on while gather still waits
scrape_all_servers_resume_NoWait(p) ==
    /\ pc[p] = "scrape_all_servers"
    /\ gather \in {"waiting", "returned", "raised"}
    /\ trace' = [trace EXCEPT ![p] = Append(@, "scrape_all_servers")]
    /\ IF gather \in {"waiting", "returned"}
       THEN /\ pc' = [pc EXCEPT ![p] = NextStep("scrape_all_servers")]
            /\ UNCHANGED <<exc, failed>>
       ELSE Raise(p, "scrape_all_servers")
    /\ UNCHANGED <<lock_file, closed, db, stdout, exit_status, fsVars, faults>>
    /\ UNCHANGED <<queryVars, statsVars, scrapeVars, storeVars>>

\* the await ends: main() goes on with the results gather returned, or
\* with the exception gather raised
scrape_all_servers_resume(p) ==
    /\ pc[p] = "scrape_all_servers"
    /\ gather \in {"returned", "raised"}
    /\ trace' = [trace EXCEPT ![p] = Append(@, "scrape_all_servers")]
    /\ IF gather = "returned"
       THEN /\ pc' = [pc EXCEPT ![p] = NextStep("scrape_all_servers")]
            /\ UNCHANGED <<exc, failed>>
       ELSE Raise(p, "scrape_all_servers")
    /\ UNCHANGED <<lock_file, closed, db, stdout, exit_status, fsVars, faults>>
    /\ UNCHANGED <<queryVars, statsVars, scrapeVars, storeVars>>

\* the steps of the event loop of process p: its tasks and gather; the
\* loop ends with the process
LoopStep(p) ==
    /\ pc[p] /= "exited"
    /\ \/ \E i \in TaskIds : query_server_start(i)
       \/ \E i \in TaskIds : query_server_finish(i)
       \/ gather_return
       \/ gather_raise

\* the steps of main() in process p
MainStep(p) ==
    \/ acquire_lock_open(p)
    \/ acquire_lock_lockf(p)
    \/ main_create_all(p)
    \/ main_load_servers(p)
    \/ main_SessionLocal(p)
    \/ init_servers(p)
    \/ scrape_all_servers_await(p)
    \/ scrape_all_servers_resume(p)
    \/ save_results(p)
    \/ save_results_for(p)
    \/ save_results_commit(p)
    \/ main_db_close(p)
    \/ release_lock_unlock(p)
    \/ release_lock_close(p)
    \/ release_lock_remove(p)
    \/ ProcessExit(p)

InitGather == MainInit /\ QueryIdle /\ GatherInit /\ StatsIdle

NextGather ==
    \E p \in {q \in Procs : Runner(q)} :
        \/ MainStep(p)
        \/ LoopStep(p)

\* one cycle, the probes running as tasks of the event loop
SpecGather == InitGather /\ [][NextGather]_vars


(***************************************************************************)
(* Properties of a cycle and its probes, checked under SpecGather           *)
(***************************************************************************)
\* no probe has been created yet
NoProbeYet == \A i \in TaskIds : task_pc[i] = "none"

\* every probe has completed
ProbesCompleted == \A i \in TaskIds : task_pc[i] = "done"

\* main() of p is at a statement of init_servers
Bootstrapping(p) == pc[p] = "init_servers"

\* main() of p is at a statement of save_results
Persisting(p) == pc[p] \in {"save_results", "for_result", "db.commit"}

\* a step that adds to the session, flushes or commits: it changes the
\* session, the database or the number of commits, and is not db.close()
SessionStep(p) ==
    /\ <<session, store, commits>>' /= <<session, store, commits>>
    /\ pc[p] /= "db.close"

\* a step of a probe
ProbeStep == task_pc' /= task_pc \/ task_out' /= task_out

\* C31: no database operation of a cycle overlaps its probes: init_servers
\* runs before any probe is created and save_results after all of them have
\* completed; every step that changes the session or the database is a
\* step of main() taken with no probe in flight, and no step of a probe
\* changes the session or the database
C31_NoOverlap ==
    /\ [](\A p \in Procs :
            /\ Bootstrapping(p) => NoProbeYet
            /\ Persisting(p) => ProbesCompleted)
    /\ [][\A p \in Procs :
            /\ Runner(p) /\ SessionStep(p) =>
                  /\ Bootstrapping(p) \/ Persisting(p)
                  /\ ~ProbeStep
            /\ ProbeStep => UNCHANGED storeVars]_vars

\* a cycle over two targets has committed its rows after both probes ran
C31_Witness ==
    \E p \in Procs :
        /\ DONE_MESSAGE \in Range(stdout[p])
        /\ Len(servers_config) = 2
        /\ ProbesCompleted
        /\ Len(store.player_counts) = 2

\* db.close() is about to run while a probe is in flight (gather raised)
CloseDuringProbe ==
    \E p \in Procs :
        /\ pc[p] = "db.close"
        /\ \E i \in TaskIds : task_pc[i] \in {"created", "awaiting"}


(***************************************************************************)
(* Termination of a cycle, checked under FairGather                        *)
(***************************************************************************)
\* the event loop runs a task that can take a step and resumes main() when
\* what it awaits is there; the calls main() makes return or raise
FairGather ==
    /\ SpecGather
    /\ \A p \in {q \in Procs : Runner(q)} :
          WF_vars(MainStep(p)) /\ WF_vars(LoopStep(p))

\* p has ended with its session closed (if it had one) and holds no lock
Terminated(p) ==
    /\ pc[p] = "exited"
    /\ db[p] \in {"none", "closed"}
    /\ closed[p]
    /\ \A i \in Inodes : lockOwner[i] /= p

\* C32: when every probe returns or fails and no database or file
\* operation fails, a cycle that acquired the lock closes its session (if
\* it opened one), releases the lock and ends; it waits for nothing but its
\* own probes (no other process takes a step)
C32_Termination ==
    \A p \in {q \in Procs : Runner(q)} :
        Acquired(p) ~> (Terminated(p) \/ faults > 0)

\* a cycle over two targets has ended after one probe failed and the other
\* returned a status, and no operation of main() failed
C32_Witness ==
    \E p \in Procs :
        /\ Terminated(p)
        /\ Acquired(p)
        /\ faults = 0
        /\ db[p] = "closed"
        /\ Len(results) = 2
        /\ \E i, j \in 1..Len(results) : results[i].success /\ ~results[j].success


(***************************************************************************)
(* Instances started while an earlier instance is ending                   *)
(***************************************************************************)
\* an earlier instance is inside release_lock: it has unlocked and closed
\* the file it created at LOCK_FILE and has not yet removed the path
HoldInit ==
    /\ pc = [p \in Procs |-> "acquire_lock"]
    /\ lock_file = [p \in Procs |-> 0]
    /\ closed = [p \in Procs |-> TRUE]
    /\ db = [p \in Procs |-> "none"]
    /\ exc = [p \in Procs |-> "none"]
    /\ failed = [p \in Procs |-> "none"]
    /\ trace = [p \in Procs |-> <<>>]
    /\ stdout = [p \in Procs |-> <<>>]
    /\ exit_status = [p \in Procs |-> -1]
    /\ dirEntry = 1
    /\ created = 1
    /\ lockOwner = [i \in Inodes |-> 0]
    /\ faults = 0

\* os.remove(LOCK_FILE) of the earlier instance: the path goes, whoever has
\* the file open or locked
earlier_release_lock_remove ==
    /\ dirEntry = 1
    /\ created = 1
    /\ dirEntry' = 0
    /\ UNCHANGED <<procVars, created, lockOwner, faults>>
    /\ UNCHANGED <<queryVars, statsVars, scrapeVars, storeVars>>

InitHold == HoldInit /\ QueryIdle /\ ScrapeIdle /\ StoreIdle /\ StatsIdle

NextHold ==
    \/ Next
    \/ earlier_release_lock_remove

\* processes running main() while the earlier instance ends
SpecHold == InitHold /\ [][NextHold]_vars

(***************************************************************************)
(* The lock during the collection, checked under SpecHold                  *)
(***************************************************************************)
\* the collection of p has been started and has not completed
Probing(p) == pc[p] = "scrape_all_servers"

\* q makes the lock call of acquire_lock
LockAttempt(q) == pc[q] = "lockf" /\ pc'[q] /= "lockf"

\* C38: while the collection of a cycle has not completed, the cycle has
\* saved nothing and holds the lock, and every other instance that makes
\* the lock call in that interval fails to acquire: it leaves main() with
\* SystemExit(1) before the body
C38_LockHeldWhileProbing ==
    /\ [](\A p \in Procs :
            Probing(p) =>
                /\ HoldsLock(p)
                /\ "save_results" \notin Range(trace[p]))
    /\ [][\A p, q \in Procs :
            (p /= q /\ Probing(p) /\ LockAttempt(q)) =>
                /\ pc'[q] = "main_end"
                /\ exc'[q] = "SystemExit"]_vars

====
